---- MODULE Spec2Model ----
(***************************************************************************)
(* The reactivity core of the repository: Observer / defineReactive / set  *)
(* / del (src/src/compiler/index.js 30-353), Watcher (355-620), Dep and    *)
(* the active-collector stack (622-693), the array mutators (695-747).     *)
(* Calls are synchronous and re-entrant (a getter may evaluate another     *)
(* watcher, a callback may tear a watcher down), so the model keeps an     *)
(* explicit control stack: each frame is one call in progress and each     *)
(* step action executes the next piece of the call on top of the stack.    *)
(***************************************************************************)
EXTENDS Integers, Sequences, FiniteSets, TLC

\* ------------------------------------------------------------------ bounds
MaxWatchers == 2
MaxDeps == 7
MaxArrLen == 2
MaxRoots == 1
MaxOrderWatchers == 3

\* ------------------------------------------------------------------ values
\* JavaScript values: undefined, NaN, the primitives 0..2 and references.
Undefined == -1
NaN == -2
Null == -3
Ref(o) == 100 + o
ObjIds == 1..3
RootObj == 1
ChildObj == 2
ArrObj == 3
Refs == {Ref(o) : o \in ObjIds}
isObject(v) == v \in Refs
Deref(v) == v - 100
IsArray(o) == o = ArrObj
isPlainObject(o) == o \in ObjIds /\ ~IsArray(o)
Truthy(v) == v \notin {Undefined, NaN, 0}
Keys == {"flag", "x", "y", "k"}
DepIds == 0..(MaxDeps - 1)

\* a + b of JavaScript on the model's values (number + undefined is NaN;
\* an object operand makes a string, which the model folds into NaN too)
JsAdd(a, b) == IF a >= 0 /\ a < 100 /\ b >= 0 /\ b < 100 THEN a + b ELSE NaN

\* a === b
StrictEq(a, b) == a = b /\ a # NaN

\* ------------------------------------------------------------- sequences
SeqToSet(s) == {s[i] : i \in 1..Len(s)}
Contains(s, e) == \E i \in 1..Len(s) : s[i] = e
IndexOf(s, e) == IF Contains(s, e) THEN CHOOSE i \in 1..Len(s) : s[i] = e /\ \A j \in 1..(i - 1) : s[j] # e ELSE 0
RemoveAt(s, i) == [j \in 1..(Len(s) - 1) |-> IF j < i THEN s[j] ELSE s[j + 1]]
\* remove(arr, item) of util: splices the first occurrence out
remove(s, e) == IF Contains(s, e) THEN RemoveAt(s, IndexOf(s, e)) ELSE s
RECURSIVE SortAsc(_)
SortAsc(s) == IF Len(s) <= 1 THEN s ELSE LET m == CHOOSE i \in 1..Len(s) : \A j \in 1..Len(s) : s[i] < s[j] \/ (s[i] = s[j] /\ i <= j) IN <<s[m]>> \o SortAsc(RemoveAt(s, m))
Count(s, e) == Cardinality({i \in 1..Len(s) : s[i] = e})

VARIABLES
    own,          \* own[o]: the own enumerable keys of object o, in insertion order
    val,          \* val[o][k]: the value of o[k] (the closure's val once reactive)
    elems,        \* elems[o]: the elements of array o
    ob,           \* ob[o]: o.__ob__, an index into observers, 0 when absent
    observers,    \* every Observer constructed so far: [value, dep, vmCount]
    accessor,     \* accessor[o][k]: the reactive getter/setter's closure: [dep, childOb]
    depUid,       \* the next Dep id
    shouldObserve,
    subs,         \* subs[d]: Dep d's subscriber list (Watcher ids)
    watchers,     \* watchers[id]: the Watcher of that id; uid = Len(watchers)
    vmWatchers,   \* vm._watchers
    depTarget,    \* Dep.target, 0 when none
    targetStack,
    queue, has, waiting, flushing, index, circular,  \* the scheduler
    async,        \* config.async
    stack,        \* the calls in progress, the innermost last
    ret,          \* the value the last completed call returned
    exc,          \* an exception is propagating
    log           \* what the current top-level operation did (history)

heapVars == <<own, val, elems, ob, observers, accessor, depUid>>
depVars == <<subs, depTarget, targetStack>>
schedVars == <<queue, has, waiting, flushing, index, circular>>
vars == <<own, val, elems, ob, observers, accessor, depUid, shouldObserve, subs, watchers, vmWatchers, depTarget, targetStack, queue, has, waiting, flushing, index, circular, async, stack, ret, exc, log>>

\* ------------------------------------------------------------------- heap
Heap == [own |-> own, val |-> val, elems |-> elems, ob |-> ob, observers |-> observers, accessor |-> accessor, depUid |-> depUid]
SetHeap(h) == /\ own' = h.own
              /\ val' = h.val
              /\ elems' = h.elems
              /\ ob' = h.ob
              /\ observers' = h.observers
              /\ accessor' = h.accessor
              /\ depUid' = h.depUid

NoAccessor == [dep |-> -1, childOb |-> 0]
IsReactive(h, o, k) == h.accessor[o][k].dep >= 0
hasOwn(h, o, k) == Contains(h.own[o], k)

\* new Dep(): id = uid++
NewDep(h) == [h EXCEPT !.depUid = @ + 1]

RECURSIVE observe(_, _, _, _)
RECURSIVE defineReactive(_, _, _, _, _)
RECURSIVE walk(_, _, _, _)
RECURSIVE observeArray(_, _, _)

\* value.__ob__ after observe(value): what observe returns (0: undefined)
ObOfValue(h, v) == IF isObject(v) THEN h.ob[Deref(v)] ELSE 0

\* new Observer(value)
NewObserver(h, o, so) ==
    LET h1 == [NewDep(h) EXCEPT !.observers = Append(@, [value |-> o, dep |-> h.depUid, vmCount |-> 0]),
                                 !.ob[o] = Len(h.observers) + 1]
    IN IF IsArray(o) THEN observeArray(h1, h1.elems[o], so) ELSE walk(h1, o, h1.own[o], so)

\* observe() without the check for an existing __ob__
observe_Rewrap(h, v, asRootData, so) ==
    IF ~isObject(v) THEN h
    ELSE LET o == Deref(v)
             h1 == IF so /\ (IsArray(o) \/ isPlainObject(o)) THEN NewObserver(h, o, so) ELSE h
         IN IF asRootData /\ h1.ob[o] # 0
            THEN [h1 EXCEPT !.observers[h1.ob[o]].vmCount = @ + 1]
            ELSE h1

\* observe(value, asRootData)
observe(h, v, asRootData, so) ==
    IF ~isObject(v) THEN h
    ELSE LET o == Deref(v)
             h1 == IF h.ob[o] # 0 THEN h
                   ELSE IF so /\ (IsArray(o) \/ isPlainObject(o)) THEN NewObserver(h, o, so)
                   ELSE h
         IN IF asRootData /\ h1.ob[o] # 0
            THEN [h1 EXCEPT !.observers[h1.ob[o]].vmCount = @ + 1]
            ELSE h1

walk(h, o, keys, so) ==
    IF keys = <<>> THEN h
    ELSE walk(defineReactive(h, o, Head(keys), h.val[o][Head(keys)], so), o, Tail(keys), so)

observeArray(h, items, so) ==
    IF items = <<>> THEN h
    ELSE observeArray(observe(h, Head(items), FALSE, so), Tail(items), so)

defineReactive(h, o, k, v, so) ==
    LET h1 == NewDep(h)
        h2 == observe(h1, v, FALSE, so)
    IN [h2 EXCEPT !.accessor[o][k] = [dep |-> h.depUid, childOb |-> ObOfValue(h2, v)],
                  !.val[o][k] = v,
                  !.own[o] = IF Contains(@, k) THEN @ ELSE Append(@, k)]

\* --------------------------------------------------------- Dep and Watcher
\* The watchers and the subscriber lists, threaded through the pure helpers.
World == [w |-> watchers, s |-> subs, vw |-> vmWatchers]
SetWorld(rw) == /\ watchers' = rw.w
                /\ subs' = rw.s
                /\ vmWatchers' = rw.vw

\* Dep.addSub / Dep.removeSub
addSub(rw, d, w) == [rw EXCEPT !.s[d] = Append(@, w)]
removeSub(rw, d, w) == [rw EXCEPT !.s[d] = remove(@, w)]

\* addDep that subscribes without looking at depIds
addDep_Resubscribe(rw, w, d) ==
    IF d \notin rw.w[w].newDepIds
    THEN addSub([rw EXCEPT !.w[w].newDepIds = @ \cup {d}, !.w[w].newDeps = Append(@, d)], d, w)
    ELSE rw

\* Watcher.addDep
addDep(rw, w, d) ==
    IF d \notin rw.w[w].newDepIds
    THEN LET r1 == [rw EXCEPT !.w[w].newDepIds = @ \cup {d}, !.w[w].newDeps = Append(@, d)]
         IN IF d \notin rw.w[w].depIds THEN addSub(r1, d, w) ELSE r1
    ELSE rw

\* Dep.depend with Dep.target = target
depend(rw, d, target) == IF target # 0 THEN addDep(rw, target, d) ELSE rw

RECURSIVE dependAll(_, _, _)
dependAll(rw, ds, target) ==
    IF ds = <<>> THEN rw ELSE dependAll(depend(rw, Head(ds), target), Tail(ds), target)

RECURSIVE removeSubs(_, _, _)
removeSubs(rw, ds, w) ==
    IF ds = <<>> THEN rw ELSE removeSubs(removeSub(rw, Head(ds), w), Tail(ds), w)

\* cleanupDeps without the removeSub of the Deps not touched this cycle
cleanupDeps_KeepStale(rw, w) ==
    [rw EXCEPT !.w[w].depIds = rw.w[w].newDepIds,
               !.w[w].newDepIds = {},
               !.w[w].deps = rw.w[w].newDeps,
               !.w[w].newDeps = <<>>]

\* Watcher.cleanupDeps
cleanupDeps(rw, w) ==
    LET me == rw.w[w]
        stale(d) == d \notin me.newDepIds
        r1 == removeSubs(rw, SelectSeq(me.deps, stale), w)
    IN [r1 EXCEPT !.w[w].depIds = me.newDepIds,
                  !.w[w].newDepIds = {},
                  !.w[w].deps = me.newDeps,
                  !.w[w].newDeps = <<>>]

\* Watcher.teardown
teardown(rw, w) ==
    IF rw.w[w].active
    THEN LET r1 == [rw EXCEPT !.vw = remove(@, w)]
             r2 == removeSubs(r1, rw.w[w].deps, w)
         IN [r2 EXCEPT !.w[w].active = FALSE]
    ELSE rw

\* dependArray(value): the container Deps of the observed elements
RECURSIVE dependArray(_, _)
dependArray(h, items) ==
    IF items = <<>> THEN <<>>
    ELSE LET e == Head(items)
         IN (IF isObject(e) /\ h.ob[Deref(e)] # 0 THEN <<h.observers[h.ob[Deref(e)]].dep>> ELSE <<>>)
            \o (IF isObject(e) /\ IsArray(Deref(e)) THEN dependArray(h, h.elems[Deref(e)]) ELSE <<>>)
            \o dependArray(h, Tail(items))

\* reactiveGetter without childOb.dep.depend() and dependArray
GetterDeps_NoChild(h, o, k) ==
    IF h.accessor[o][k].dep < 0 THEN <<>> ELSE <<h.accessor[o][k].dep>>

\* reactiveGetter: the Deps it calls depend() on, in order
GetterDeps(h, o, k) ==
    LET a == h.accessor[o][k]
        v == h.val[o][k]
    IN IF a.dep < 0 THEN <<>>
       ELSE <<a.dep>>
            \o (IF a.childOb # 0
                THEN <<h.observers[a.childOb].dep>>
                     \o (IF isObject(v) /\ IsArray(Deref(v)) THEN dependArray(h, h.elems[Deref(v)]) ELSE <<>>)
                ELSE <<>>)

\* o[k] as a read returns it
ReadValue(h, o, k) == IF hasOwn(h, o, k) THEN h.val[o][k] ELSE Undefined

\* ------------------------------------------------------ getters, callbacks
\* The evaluation functions and callbacks the watchers of the model are built
\* over, as small programs over the root object o:
\*   field     () => o.x
\*   cond      () => o.flag ? o.x : o.y
\*   sum       () => o.x + o.y
\*   computed  () => computed1 + o.y, computed1 the lazy watcher of id 1,
\*             read as a computed property reads it: evaluate() when dirty,
\*             then depend(), then its value
\*   nested    () => { if (w1.dirty) w1.evaluate(); return o.y }
\*   throwing  () => { if (o.flag) throw ...; return o.x }
\*   unwatch   () => { if (o.flag) unwatch(); return o.y }, unwatch the
\*             watcher's own teardown
Op(op, o, k, w) == [op |-> op, o |-> o, k |-> k, w |-> w]
GetterProg(kind, self) ==
    CASE kind = "field" -> <<Op("read", RootObj, "x", 0)>>
      [] kind = "cond" -> <<Op("read", RootObj, "flag", 0), Op("branch", RootObj, "x", 0)>>
      [] kind = "sum" -> <<Op("read", RootObj, "x", 0), Op("add", RootObj, "y", 0)>>
      [] kind = "computed" -> <<Op("evalIfDirty", 0, "", 1), Op("dependOn", 0, "", 1), Op("add", RootObj, "y", 0)>>
      [] kind = "nested" -> <<Op("evalIfDirty", 0, "", 1), Op("read", RootObj, "y", 0)>>
      [] kind = "throwing" -> <<Op("read", RootObj, "flag", 0), Op("throwIf", 0, "", 0), Op("read", RootObj, "x", 0)>>
      [] kind = "unwatch" -> <<Op("read", RootObj, "flag", 0), Op("teardownIf", 0, "", self), Op("read", RootObj, "y", 0)>>

\* Callbacks: noop does nothing, unwatchOther tears the other watcher down,
\* throws throws, evalOther calls evaluate() on the other watcher, toggle
\* writes root.x = root.x ? 0 : 1.
CbProg(kind, self) ==
    CASE kind = "noop" -> <<>>
      [] kind = "unwatchOther" -> <<Op("teardown", 0, "", IF self = 1 THEN 2 ELSE 1)>>
      [] kind = "throws" -> <<Op("throw", 0, "", 0)>>
      [] kind = "evalOther" -> <<Op("evaluate", 0, "", IF self = 1 THEN 2 ELSE 1)>>
      [] kind = "toggle" -> <<Op("toggle", RootObj, "x", 0)>>

\* ------------------------------------------------------------------ frames
Fr(f, w, pc) == [f |-> f, w |-> w, pc |-> pc, prog |-> <<>>, v |-> Undefined, old |-> Undefined,
                 touched |-> {}, lst |-> <<>>, i |-> 0, thrown |-> FALSE]
Top == stack[Len(stack)]
Idle == stack = <<>> /\ log.op.name = "idle"
Completed == stack = <<>> /\ log.op.name # "idle"
Running(f, pc) == stack # <<>> /\ Top.f = f /\ Top.pc = pc
Below == SubSeq(stack, 1, Len(stack) - 1)
SetTop(fr) == Append(Below, fr)

\* The control state: the call stack and the active-collector stack.
Ctl == [stack |-> stack, ts |-> targetStack, dt |-> depTarget]
SetCtl(c) == /\ stack' = c.stack
             /\ targetStack' = c.ts
             /\ depTarget' = c.dt

\* popTarget that leaves the stack and Dep.target as they are
popTarget_Keep(c) == c

\* pushTarget that pushes and leaves Dep.target as it was
pushTarget_NoTarget(c, w) == [c EXCEPT !.ts = Append(@, w)]

\* pushTarget / popTarget
pushTarget(c, w) == [c EXCEPT !.ts = Append(@, w), !.dt = w]
popTarget(c) ==
    LET ts == IF c.ts = <<>> THEN <<>> ELSE SubSeq(c.ts, 1, Len(c.ts) - 1)
    IN [c EXCEPT !.ts = ts, !.dt = IF ts = <<>> THEN 0 ELSE ts[Len(ts)]]

\* Watcher.get, its entry: pushTarget(this), then the getter runs
EnterGet(c, w) ==
    LET c1 == pushTarget(c, w)
    IN [c1 EXCEPT !.stack = Append(@, [Fr("get", w, "body") EXCEPT !.prog = GetterProg(watchers[w].getter, w)])]

\* Watcher.run, its entry: nothing when inactive, else get()
EnterRun(c, w) ==
    IF watchers[w].active
    THEN EnterGet([c EXCEPT !.stack = Append(@, Fr("run", w, "afterGet"))], w)
    ELSE c

\* ------------------------------------------------------------------ history
NoOp == [name |-> "idle", o |-> 0, k |-> "", v |-> Undefined, w |-> 0]
OpRec(name, o, k, v, w) == [name |-> name, o |-> o, k |-> k, v |-> v, w |-> w]
\* What the operation's target looked like when the operation was called.
Pre(o, k) ==
    IF o \notin ObjIds THEN [ob |-> 0, nobs |-> Len(observers), uid |-> depUid, had |-> FALSE, vmCount |-> 0, obSubs |-> <<>>, acc |-> [kk \in Keys |-> NoAccessor], len |-> 0]
    ELSE [ob |-> ob[o], nobs |-> Len(observers), uid |-> depUid, had |-> Contains(own[o], k),
          vmCount |-> IF ob[o] # 0 THEN observers[ob[o]].vmCount ELSE 0,
          obSubs |-> IF ob[o] # 0 THEN subs[observers[ob[o]].dep] ELSE <<>>,
          acc |-> accessor[o], len |-> Len(elems[o])]
NewLog(op) == [op |-> op, pre |-> Pre(op.o, op.k), ws |-> watchers, s0 |-> subs, q0 |-> queue, updated |-> <<>>, gets |-> <<>>, runs |-> <<>>, notified |-> <<>>, cbs |-> <<>>, errors |-> 0, warned |-> FALSE, result |-> Undefined]

\* --------------------------------------------------------------- scheduler
\* queueWatcher and the flush: their code is not under src/, they follow the
\* scheduler contract of the specification.
Sched == [queue |-> queue, has |-> has, waiting |-> waiting, flushing |-> flushing, index |-> index, circular |-> circular]
SetSched(q) == /\ queue' = q.queue
               /\ has' = q.has
               /\ waiting' = q.waiting
               /\ flushing' = q.flushing
               /\ index' = q.index
               /\ circular' = q.circular

\* the position a watcher re-queued during a flush is spliced in at
IdOf(w) == watchers[w].id
RECURSIVE SortById(_)
SortById(s) ==
    IF Len(s) <= 1 THEN s
    ELSE LET m == CHOOSE i \in 1..Len(s) : \A j \in 1..Len(s) : IdOf(s[i]) < IdOf(s[j]) \/ (IdOf(s[i]) = IdOf(s[j]) /\ i <= j)
         IN <<s[m]>> \o SortById(RemoveAt(s, m))

InsertPos(q, w) ==
    LET above == {i \in (q.index + 2)..Len(q.queue) : \A j \in i..Len(q.queue) : IdOf(q.queue[j]) > IdOf(w)}
    IN IF above = {} THEN Len(q.queue) + 1 ELSE CHOOSE i \in above : \A j \in above : i <= j
InsertAt(s, i, e) == SubSeq(s, 1, i - 1) \o <<e>> \o SubSeq(s, i, Len(s))

\* The flush's threshold of re-queues of one watcher, and its test.
MaxUpdateCount == 2
shouldDrop_Never(n) == FALSE
shouldDrop(n) == n > MaxUpdateCount

\* queueWatcher: a pending watcher is not queued again; before the flush
\* the watcher is appended; during the flush it is inserted by id, and a
\* watcher this flush has already run is re-queued: that is counted, and
\* past the threshold the watcher is dropped for the rest of the flush.
queueWatcher(q, w) ==
    IF IdOf(w) \in q.has THEN q
    ELSE IF ~q.flushing
    THEN [q EXCEPT !.has = @ \cup {IdOf(w)}, !.queue = Append(@, w), !.waiting = TRUE]
    ELSE IF shouldDrop(q.circular[w]) THEN q
    ELSE LET n == IF Contains(SubSeq(q.queue, 1, q.index + 1), w) THEN q.circular[w] + 1 ELSE q.circular[w]
         IN IF shouldDrop(n)
            THEN [q EXCEPT !.circular[w] = n]
            ELSE [q EXCEPT !.circular[w] = n,
                           !.has = @ \cup {IdOf(w)},
                           !.queue = InsertAt(@, InsertPos(q, w), w)]

\* ----------------------------------------------------------------- Watcher
\* The configurations the model builds watchers with.
Profile(g, cb, deep, user, lazy, sync) == [getter |-> g, cb |-> cb, deep |-> deep, user |-> user, lazy |-> lazy, sync |-> sync]
Profiles ==
    { Profile("field", "noop", FALSE, TRUE, FALSE, FALSE),
      Profile("cond", "noop", FALSE, FALSE, FALSE, FALSE),
      Profile("cond", "unwatchOther", FALSE, TRUE, FALSE, TRUE),
      Profile("sum", "noop", FALSE, FALSE, TRUE, FALSE),
      Profile("computed", "noop", FALSE, FALSE, FALSE, FALSE),
      Profile("throwing", "noop", FALSE, TRUE, FALSE, FALSE),
      Profile("unwatch", "noop", FALSE, TRUE, FALSE, FALSE) }

\* new Watcher(vm, expOrFn, cb, options), up to the first get()
\* this.id = ++uid with the id decreasing instead
NewWatcher_IdDown(p, uid) ==
    [id |-> 0 - uid, getter |-> p.getter, cb |-> p.cb, deep |-> p.deep, user |-> p.user, lazy |-> p.lazy, sync |-> p.sync,
     active |-> TRUE, dirty |-> p.lazy, deps |-> <<>>, newDeps |-> <<>>, depIds |-> {}, newDepIds |-> {},
     value |-> Undefined, branch |-> ""]

\* this.id = ++uid with every watcher given the same id
NewWatcher_SameId(p, uid) ==
    [id |-> 1, getter |-> p.getter, cb |-> p.cb, deep |-> p.deep, user |-> p.user, lazy |-> p.lazy, sync |-> p.sync,
     active |-> TRUE, dirty |-> p.lazy, deps |-> <<>>, newDeps |-> <<>>, depIds |-> {}, newDepIds |-> {},
     value |-> Undefined, branch |-> ""]

NewWatcher(p, uid) ==
    [id |-> uid + 1, getter |-> p.getter, cb |-> p.cb, deep |-> p.deep, user |-> p.user, lazy |-> p.lazy, sync |-> p.sync,
     active |-> TRUE, dirty |-> p.lazy, deps |-> <<>>, newDeps |-> <<>>, depIds |-> {}, newDepIds |-> {},
     value |-> Undefined, branch |-> ""]

\* let uid = 0: every construction increments it
WatcherUid == Len(watchers)

Construct(p, max) ==
    /\ Idle
    /\ Len(watchers) < max
    /\ p.getter \in {"computed", "nested"} => (Len(watchers) >= 1 /\ watchers[1].lazy)
    /\ LET w == Len(watchers) + 1
       IN /\ watchers' = Append(watchers, NewWatcher(p, WatcherUid))
          /\ vmWatchers' = Append(vmWatchers, w)
          /\ IF p.lazy
             THEN UNCHANGED <<stack, targetStack, depTarget>>
             ELSE /\ stack' = <<Fr("ctor", w, "afterGet"), [Fr("get", w, "body") EXCEPT !.prog = GetterProg(p.getter, w)]>>
                  /\ targetStack' = pushTarget(Ctl, w).ts
                  /\ depTarget' = pushTarget(Ctl, w).dt
          /\ log' = NewLog(OpRec("new", 0, "", Undefined, w))
    /\ UNCHANGED <<heapVars, shouldObserve, subs, schedVars, async, ret, exc>>

\* this.value = this.get() of the constructor
CtorAfterGet ==
    /\ Running("ctor", "afterGet")
    /\ ~exc
    /\ watchers' = [watchers EXCEPT ![Top.w].value = ret]
    /\ stack' = Below
    /\ ret' = Undefined
    /\ UNCHANGED <<heapVars, shouldObserve, subs, vmWatchers, depTarget, targetStack, schedVars, async, exc, log>>

\* One statement of the getter running inside get().
GetBody ==
    /\ Running("get", "body")
    /\ ~exc
    /\ Top.prog # <<>>
    /\ LET fr == Top
           op == Head(fr.prog)
           rest == Tail(fr.prog)
           h == Heap
           ds == GetterDeps(h, op.o, op.k)
           seen == IF depTarget = fr.w THEN fr.touched \cup SeqToSet(ds) ELSE fr.touched
       IN CASE op.op = "read" ->
                 /\ SetWorld(dependAll(World, ds, depTarget))
                 /\ stack' = SetTop([fr EXCEPT !.prog = rest, !.v = ReadValue(h, op.o, op.k), !.touched = seen])
                 /\ UNCHANGED <<targetStack, depTarget, exc>>
            [] op.op = "add" ->
                 /\ SetWorld(dependAll(World, ds, depTarget))
                 /\ stack' = SetTop([fr EXCEPT !.prog = rest, !.v = JsAdd(fr.v, ReadValue(h, op.o, op.k)), !.touched = seen])
                 /\ UNCHANGED <<targetStack, depTarget, exc>>
            [] op.op = "branch" ->
                 /\ stack' = SetTop([fr EXCEPT !.prog = <<Op("read", op.o, IF Truthy(fr.v) THEN "x" ELSE "y", 0)>> \o rest])
                 /\ watchers' = [watchers EXCEPT ![fr.w].branch = IF Truthy(fr.v) THEN "x" ELSE "y"]
                 /\ UNCHANGED <<subs, vmWatchers, targetStack, depTarget, exc>>
            [] op.op = "evalIfDirty" ->
                 /\ IF watchers[op.w].dirty
                    THEN SetCtl(EnterGet([Ctl EXCEPT !.stack = Append(SetTop([fr EXCEPT !.prog = rest]), Fr("evaluate", op.w, "afterGet"))], op.w))
                    ELSE /\ stack' = SetTop([fr EXCEPT !.prog = rest])
                         /\ UNCHANGED <<targetStack, depTarget>>
                 /\ UNCHANGED <<watchers, subs, vmWatchers, exc>>
            [] op.op = "dependOn" ->
                 \* Watcher.depend of the computed watcher, then its value
                 LET cds == watchers[op.w].deps
                     rev == [i \in 1..Len(cds) |-> cds[Len(cds) + 1 - i]]
                 IN /\ SetWorld(dependAll(World, rev, depTarget))
                    /\ stack' = SetTop([fr EXCEPT !.prog = rest, !.v = watchers[op.w].value,
                                                  !.touched = IF depTarget = fr.w THEN @ \cup SeqToSet(cds) ELSE @])
                    /\ UNCHANGED <<targetStack, depTarget, exc>>
            [] op.op = "throwIf" ->
                 /\ stack' = SetTop([fr EXCEPT !.prog = rest])
                 /\ exc' = Truthy(fr.v)
                 /\ UNCHANGED <<watchers, subs, vmWatchers, targetStack, depTarget>>
            [] op.op = "teardownIf" ->
                 /\ SetWorld(IF Truthy(fr.v) THEN teardown(World, op.w) ELSE World)
                 /\ stack' = SetTop([fr EXCEPT !.prog = rest])
                 /\ UNCHANGED <<targetStack, depTarget, exc>>
    /\ UNCHANGED <<heapVars, shouldObserve, schedVars, async, ret, log>>

\* traverse(value) of a deep watcher: the Deps it touches (the code of
\* traverse is not under src/; it reads every property of every object
\* reachable from value)
RECURSIVE TraverseDeps(_, _, _)
RECURSIVE TraverseList(_, _, _)
TraverseDeps(h, v, seen) ==
    IF ~isObject(v) \/ Deref(v) \in seen THEN <<>>
    ELSE LET o == Deref(v)
             ks == h.own[o]
             vs == IF IsArray(o) THEN h.elems[o] ELSE [i \in 1..Len(ks) |-> h.val[o][ks[i]]]
             ds == IF IsArray(o) THEN <<>> ELSE [i \in 1..Len(ks) |-> GetterDeps(h, o, ks[i])]
         IN TraverseList(h, [i \in 1..Len(vs) |-> [v |-> vs[Len(vs) + 1 - i], d |-> IF IsArray(o) THEN <<>> ELSE ds[Len(vs) + 1 - i]]], seen \cup {o})
TraverseList(h, items, seen) ==
    IF items = <<>> THEN <<>>
    ELSE Head(items).d \o TraverseDeps(h, Head(items).v, seen) \o TraverseList(h, Tail(items), seen)

\* get() that returns what its getter had read when it threw
GetValue_Partial(thrown, v) == v

\* The value get() returns: `let value` stays undefined when the getter
\* threw before `value = this.getter.call(vm, vm)` completed.
GetValue(thrown, v) == IF thrown THEN Undefined ELSE v

\* The catch and finally blocks of get(): the getter has returned or thrown.
GetFinally ==
    /\ Running("get", "body")
    /\ exc \/ Top.prog = <<>>
    /\ LET fr == Top
           w == fr.w
           me == watchers[w]
           rethrow == exc /\ ~me.user
           value == GetValue(exc, fr.v)
           tds == IF me.deep THEN TraverseDeps(Heap, value, {}) ELSE <<>>
           r1 == dependAll(World, tds, depTarget)
           c1 == popTarget(Ctl)
           r2 == cleanupDeps(r1, w)
       IN /\ SetWorld(r2)
          /\ targetStack' = c1.ts
          /\ depTarget' = c1.dt
          /\ stack' = SetTop([fr EXCEPT !.pc = "exit", !.v = value, !.thrown = rethrow, !.prog = <<>>,
                                        !.touched = IF depTarget = w THEN @ \cup SeqToSet(tds) ELSE @])
          /\ exc' = FALSE
          /\ log' = [log EXCEPT !.errors = IF exc /\ me.user THEN @ + 1 ELSE @, !.gets = Append(@, w)]
    /\ UNCHANGED <<heapVars, shouldObserve, schedVars, async, ret>>

\* get() returns its value, or rethrows.
GetExit ==
    /\ Running("get", "exit")
    /\ stack' = Below
    /\ ret' = Top.v
    /\ exc' = Top.thrown
    /\ UNCHANGED <<heapVars, shouldObserve, subs, watchers, vmWatchers, depTarget, targetStack, schedVars, async, log>>

\* The test of run() with its clauses for objects and deep watchers left out
ValueChanged_Only(value, old, deep) == ~StrictEq(value, old)

\* The test of run(): value !== this.value || isObject(value) || this.deep
ValueChanged(value, old, deep) == ~StrictEq(value, old) \/ isObject(value) \/ deep

\* Watcher.run after its get() returned: compare, store, call the callback.
RunAfterGet ==
    /\ Running("run", "afterGet")
    /\ ~exc
    /\ LET fr == Top
           w == fr.w
           me == watchers[w]
           value == ret
       IN IF ValueChanged(value, me.value, me.deep)
          THEN /\ watchers' = [watchers EXCEPT ![w].value = value]
               /\ stack' = Append(SetTop([fr EXCEPT !.pc = "afterCb"]),
                                  [Fr("cb", w, "body") EXCEPT !.prog = CbProg(me.cb, w), !.v = value, !.old = me.value])
               /\ log' = [log EXCEPT !.cbs = Append(@, [w |-> w, new |-> value, old |-> me.value, active |-> me.active])]
          ELSE /\ stack' = Below
               /\ UNCHANGED <<watchers, log>>
    /\ ret' = Undefined
    /\ UNCHANGED <<heapVars, shouldObserve, subs, vmWatchers, depTarget, targetStack, schedVars, async, exc>>

\* Dep.notify whose snapshot stays in subscription order
EnterNotify_NoSort(c, sb, d) ==
    [c EXCEPT !.stack = Append(@, [Fr("notify", 0, "loop") EXCEPT !.lst = sb[d]])]

\* Dep.notify, its entry: the snapshot of the subscriber list
EnterNotify(c, sb, d) ==
    [c EXCEPT !.stack = Append(@, [Fr("notify", 0, "loop") EXCEPT !.lst = IF async THEN sb[d] ELSE SortById(sb[d])])]

\* ------------------------------------------------------- property writes
\* target[key] = newVal: the reactiveSetter when the key is reactive, a plain
\* assignment otherwise.  Returns the heap and the control state, with the
\* notify() call entered when the setter makes one.
\* The reactiveSetter without its test for NaN written over NaN
Assign_NoNaN(c, h, o, k, newVal, so) ==
    IF IsReactive(h, o, k)
    THEN LET value == h.val[o][k]
         IN IF StrictEq(newVal, value)
            THEN [c |-> c, h |-> h, notified |-> FALSE]
            ELSE LET h1 == [h EXCEPT !.val[o][k] = newVal]
                     h2 == observe(h1, newVal, FALSE, so)
                     h3 == [h2 EXCEPT !.accessor[o][k].childOb = ObOfValue(h2, newVal)]
                 IN [c |-> EnterNotify(c, subs, h.accessor[o][k].dep), h |-> h3, notified |-> TRUE]
    ELSE [c |-> c,
          h |-> [h EXCEPT !.val[o][k] = newVal, !.own[o] = IF Contains(@, k) THEN @ ELSE Append(@, k)],
          notified |-> FALSE]

Assign(c, h, o, k, newVal, so) ==
    IF IsReactive(h, o, k)
    THEN LET value == h.val[o][k]
         IN IF StrictEq(newVal, value) \/ (~StrictEq(newVal, newVal) /\ ~StrictEq(value, value))
            THEN [c |-> c, h |-> h, notified |-> FALSE]
            ELSE LET h1 == [h EXCEPT !.val[o][k] = newVal]
                     h2 == observe(h1, newVal, FALSE, so)
                     h3 == [h2 EXCEPT !.accessor[o][k].childOb = ObOfValue(h2, newVal)]
                 IN [c |-> EnterNotify(c, subs, h.accessor[o][k].dep), h |-> h3, notified |-> TRUE]
    ELSE [c |-> c,
          h |-> [h EXCEPT !.val[o][k] = newVal, !.own[o] = IF Contains(@, k) THEN @ ELSE Append(@, k)],
          notified |-> FALSE]

\* One statement of a watcher's callback.
CbBody ==
    /\ Running("cb", "body")
    /\ ~exc
    /\ LET fr == Top
       IN IF fr.prog = <<>>
          THEN /\ stack' = Below
               /\ UNCHANGED <<heapVars, watchers, subs, vmWatchers, exc, depTarget, targetStack, log>>
          ELSE LET op == Head(fr.prog)
               IN CASE op.op = "teardown" ->
                         /\ SetWorld(IF op.w \in 1..Len(watchers) THEN teardown(World, op.w) ELSE World)
                         /\ stack' = SetTop([fr EXCEPT !.prog = Tail(fr.prog)])
                         /\ UNCHANGED <<heapVars, exc, depTarget, targetStack, log>>
                    [] op.op = "throw" ->
                         /\ stack' = SetTop([fr EXCEPT !.prog = Tail(fr.prog)])
                         /\ exc' = TRUE
                         /\ UNCHANGED <<heapVars, watchers, subs, vmWatchers, depTarget, targetStack, log>>
                    [] op.op = "evaluate" ->
                         /\ IF op.w \in 1..Len(watchers)
                            THEN SetCtl(EnterGet([Ctl EXCEPT !.stack = Append(SetTop([fr EXCEPT !.prog = Tail(fr.prog)]), Fr("evaluate", op.w, "afterGet"))], op.w))
                            ELSE /\ stack' = SetTop([fr EXCEPT !.prog = Tail(fr.prog)])
                                 /\ UNCHANGED <<depTarget, targetStack>>
                         /\ UNCHANGED <<heapVars, watchers, subs, vmWatchers, exc, log>>
                    [] op.op = "toggle" ->
                         \* o.k = o.k ? 0 : 1, a write through the reactiveSetter
                         LET a == Assign([Ctl EXCEPT !.stack = SetTop([fr EXCEPT !.prog = Tail(fr.prog)])],
                                         Heap, op.o, op.k, IF Truthy(val[op.o][op.k]) THEN 0 ELSE 1, shouldObserve)
                         IN /\ SetHeap(a.h)
                            /\ SetCtl(a.c)
                            /\ log' = [log EXCEPT !.notified = IF a.notified THEN Append(@, accessor[op.o][op.k].dep) ELSE @]
                            /\ UNCHANGED <<watchers, subs, vmWatchers, exc>>
    /\ UNCHANGED <<shouldObserve, schedVars, async, ret>>

\* run() returns once the callback has.
RunAfterCb ==
    /\ Running("run", "afterCb")
    /\ ~exc
    /\ stack' = Below
    /\ UNCHANGED <<heapVars, shouldObserve, subs, watchers, vmWatchers, depTarget, targetStack, schedVars, async, ret, exc, log>>

\* Watcher.evaluate after its get() returned
EvaluateAfterGet ==
    /\ Running("evaluate", "afterGet")
    /\ ~exc
    /\ watchers' = [watchers EXCEPT ![Top.w].value = ret, ![Top.w].dirty = FALSE]
    /\ stack' = Below
    /\ ret' = Undefined
    /\ log' = IF Len(stack) = 1 THEN [log EXCEPT !.result = ret] ELSE log
    /\ UNCHANGED <<heapVars, shouldObserve, subs, vmWatchers, depTarget, targetStack, schedVars, async, exc>>

\* An exception leaves a call that does not catch it; the callback of a
\* user watcher runs under invokeWithErrorHandling, which hands it to the
\* error handler.
Unwind ==
    /\ exc
    /\ stack # <<>>
    /\ ~(Top.f = "get" /\ Top.pc = "body")
    /\ stack' = Below
    /\ IF Top.f = "cb" /\ watchers[Top.w].user
       THEN /\ exc' = FALSE
            /\ log' = [log EXCEPT !.errors = @ + 1]
       ELSE UNCHANGED <<exc, log>>
    /\ UNCHANGED <<heapVars, shouldObserve, subs, watchers, vmWatchers, depTarget, targetStack, schedVars, async, ret>>

\* update() that neither marks, runs nor queues the watcher
update_Lost(c, rw, q, w) ==
    [c |-> c, rw |-> rw, q |-> q]

\* update() that re-evaluates at once whatever the watcher's mode
update_Eager(c, rw, q, w) ==
    [c |-> EnterRun(c, w), rw |-> rw, q |-> q]

\* Watcher.update, called by Dep.notify or directly
update(c, rw, q, w) ==
    IF rw.w[w].lazy THEN [c |-> c, rw |-> [rw EXCEPT !.w[w].dirty = TRUE], q |-> q]
    ELSE IF rw.w[w].sync THEN [c |-> EnterRun(c, w), rw |-> rw, q |-> q]
    ELSE [c |-> c, rw |-> rw, q |-> queueWatcher(q, w)]

\* Dep.notify, one turn of its loop: subs[i].update()
NotifyStep ==
    /\ Running("notify", "loop")
    /\ ~exc
    /\ LET fr == Top
       IN IF fr.i >= Len(fr.lst)
          THEN /\ stack' = Below
               /\ UNCHANGED <<watchers, subs, vmWatchers, targetStack, depTarget, schedVars, log>>
          ELSE LET w == fr.lst[fr.i + 1]
                   u == update([Ctl EXCEPT !.stack = SetTop([fr EXCEPT !.i = @ + 1])], World, Sched, w)
               IN /\ SetCtl(u.c)
                  /\ SetWorld(u.rw)
                  /\ SetSched(u.q)
                  /\ log' = [log EXCEPT !.updated = Append(@, w),
                                        !.warned = @ \/ (shouldDrop(u.q.circular[w]) /\ ~shouldDrop(circular[w]))]
    /\ UNCHANGED <<heapVars, shouldObserve, async, ret, exc>>

Write(o, k, v) ==
    /\ Idle
    /\ ~IsArray(o)
    /\ LET a == Assign(Ctl, Heap, o, k, v, shouldObserve)
       IN /\ a.h.depUid <= MaxDeps
          /\ SetHeap(a.h)
          /\ SetCtl(a.c)
          /\ log' = [NewLog(OpRec("write", o, k, v, 0)) EXCEPT !.notified = IF a.notified THEN <<accessor[o][k].dep>> ELSE <<>>]
    /\ UNCHANGED <<shouldObserve, subs, watchers, vmWatchers, schedVars, async, ret, exc>>

\* -------------------------------------------------------- array mutators
\* The native Array.prototype method: the array after it and what it returns
\* (a removed-elements array is returned as its only element, Undefined when
\* nothing was removed).
Native(items, method, i, v) ==
    CASE method = "push" -> [items |-> Append(items, v), result |-> Len(items) + 1]
      [] method = "unshift" -> [items |-> <<v>> \o items, result |-> Len(items) + 1]
      [] method = "pop" -> IF items = <<>> THEN [items |-> items, result |-> Undefined]
                           ELSE [items |-> SubSeq(items, 1, Len(items) - 1), result |-> items[Len(items)]]
      [] method = "shift" -> IF items = <<>> THEN [items |-> items, result |-> Undefined]
                             ELSE [items |-> Tail(items), result |-> Head(items)]
      [] method = "reverse" -> [items |-> [j \in 1..Len(items) |-> items[Len(items) + 1 - j]], result |-> Undefined]
      [] method = "sort" -> [items |-> SortAsc(items), result |-> Undefined]
      \* splice(i, 1, v)
      [] method = "splice" -> IF i < Len(items)
                              THEN [items |-> [items EXCEPT ![i + 1] = v], result |-> items[i + 1]]
                              ELSE [items |-> Append(items, v), result |-> Undefined]
      \* splice(i, 1)
      [] method = "remove" -> IF i < Len(items)
                              THEN [items |-> RemoveAt(items, i + 1), result |-> items[i + 1]]
                              ELSE [items |-> items, result |-> Undefined]

\* arr.method(...): the mutator of arrayMethods when arr is observed (its
\* prototype was replaced by the Observer), the native method otherwise.
Mutate(c, h, o, method, i, v, so) ==
    LET n == Native(h.elems[o], method, i, v)
        h1 == [h EXCEPT !.elems[o] = n.items]
    IN IF h.ob[o] = 0
       THEN [c |-> c, h |-> h1, result |-> n.result, notified |-> <<>>]
       ELSE LET inserted == IF method \in {"push", "unshift", "splice"} THEN <<v>> ELSE <<>>
                h2 == observeArray(h1, inserted, so)
                d == h.observers[h.ob[o]].dep
            IN [c |-> EnterNotify(c, subs, d), h |-> h2, result |-> n.result, notified |-> <<d>>]

\* --------------------------------------------------------------- set, del
\* set() on an object without the state-root guard
set_NoRootGuard(c, h, o, k, i, v, so) ==
    IF hasOwn(h, o, k)
    THEN LET a == Assign(c, h, o, k, v, so)
         IN [c |-> a.c, h |-> a.h, result |-> v, notified |-> IF a.notified THEN <<h.accessor[o][k].dep>> ELSE <<>>, warned |-> FALSE]
    ELSE IF h.ob[o] = 0
    THEN [c |-> c, h |-> [h EXCEPT !.val[o][k] = v, !.own[o] = Append(@, k)], result |-> v, notified |-> <<>>, warned |-> FALSE]
    ELSE LET h1 == defineReactive(h, o, k, v, so)
             d == h.observers[h.ob[o]].dep
         IN [c |-> EnterNotify(c, subs, d), h |-> h1, result |-> v, notified |-> <<d>>, warned |-> FALSE]

\* set() on an object without the ob.dep.notify() after defineReactive
set_NoNotify(c, h, o, k, i, v, so) ==
    IF hasOwn(h, o, k)
    THEN LET a == Assign(c, h, o, k, v, so)
         IN [c |-> a.c, h |-> a.h, result |-> v, notified |-> IF a.notified THEN <<h.accessor[o][k].dep>> ELSE <<>>, warned |-> FALSE]
    ELSE IF h.ob[o] # 0 /\ h.observers[h.ob[o]].vmCount > 0
    THEN [c |-> c, h |-> h, result |-> v, notified |-> <<>>, warned |-> TRUE]
    ELSE IF h.ob[o] = 0
    THEN [c |-> c, h |-> [h EXCEPT !.val[o][k] = v, !.own[o] = Append(@, k)], result |-> v, notified |-> <<>>, warned |-> FALSE]
    ELSE [c |-> c, h |-> defineReactive(h, o, k, v, so), result |-> v, notified |-> <<h.observers[h.ob[o]].dep>>, warned |-> FALSE]

\* set(target, key, val) on an object or array target
set(c, h, o, k, i, v, so) ==
    IF IsArray(o)
    THEN \* target.length = Math.max(target.length, key); target.splice(key, 1, val)
         LET items == h.elems[o]
             grown == [j \in 1..(IF i > Len(items) THEN i ELSE Len(items)) |-> IF j <= Len(items) THEN items[j] ELSE Undefined]
             m == Mutate(c, [h EXCEPT !.elems[o] = grown], o, "splice", i, v, so)
         IN [c |-> m.c, h |-> m.h, result |-> v, notified |-> m.notified, warned |-> FALSE]
    ELSE IF hasOwn(h, o, k)
    THEN LET a == Assign(c, h, o, k, v, so)
         IN [c |-> a.c, h |-> a.h, result |-> v, notified |-> IF a.notified THEN <<h.accessor[o][k].dep>> ELSE <<>>, warned |-> FALSE]
    ELSE IF h.ob[o] # 0 /\ h.observers[h.ob[o]].vmCount > 0
    THEN [c |-> c, h |-> h, result |-> v, notified |-> <<>>, warned |-> TRUE]
    ELSE IF h.ob[o] = 0
    THEN [c |-> c, h |-> [h EXCEPT !.val[o][k] = v, !.own[o] = Append(@, k)], result |-> v, notified |-> <<>>, warned |-> FALSE]
    ELSE LET h1 == defineReactive(h, o, k, v, so)
             d == h.observers[h.ob[o]].dep
         IN [c |-> EnterNotify(c, subs, d), h |-> h1, result |-> v, notified |-> <<d>>, warned |-> FALSE]

\* del that removes the key and never notifies
del_NoNotify(c, h, o, k, i, so) ==
    IF IsArray(o)
    THEN LET m == Mutate(c, h, o, "remove", i, Undefined, so)
         IN [c |-> m.c, h |-> m.h, notified |-> m.notified, warned |-> FALSE]
    ELSE IF h.ob[o] # 0 /\ h.observers[h.ob[o]].vmCount > 0
    THEN [c |-> c, h |-> h, notified |-> <<>>, warned |-> TRUE]
    ELSE IF ~hasOwn(h, o, k)
    THEN [c |-> c, h |-> h, notified |-> <<>>, warned |-> FALSE]
    ELSE [c |-> c, h |-> [h EXCEPT !.own[o] = remove(@, k), !.val[o][k] = Undefined, !.accessor[o][k] = NoAccessor],
          notified |-> <<>>, warned |-> FALSE]

\* del(target, key) on an object or array target
del(c, h, o, k, i, so) ==
    IF IsArray(o)
    THEN LET m == Mutate(c, h, o, "remove", i, Undefined, so)
         IN [c |-> m.c, h |-> m.h, notified |-> m.notified, warned |-> FALSE]
    ELSE IF h.ob[o] # 0 /\ h.observers[h.ob[o]].vmCount > 0
    THEN [c |-> c, h |-> h, notified |-> <<>>, warned |-> TRUE]
    ELSE IF ~hasOwn(h, o, k)
    THEN [c |-> c, h |-> h, notified |-> <<>>, warned |-> FALSE]
    ELSE LET h1 == [h EXCEPT !.own[o] = remove(@, k), !.val[o][k] = Undefined, !.accessor[o][k] = NoAccessor]
         IN IF h.ob[o] = 0
            THEN [c |-> c, h |-> h1, notified |-> <<>>, warned |-> FALSE]
            ELSE [c |-> EnterNotify(c, subs, h.observers[h.ob[o]].dep), h |-> h1, notified |-> <<h.observers[h.ob[o]].dep>>, warned |-> FALSE]

\* set(target, key, val) on a target that is no object: isUndef(target) or
\* isPrimitive(target) warns, Array.isArray(target) is false, and then
\* `key in target` throws a TypeError, its right operand not being an object.
isUndef(v) == v \in {Undefined, Null}
isPrimitive(v) == v \notin Refs /\ ~isUndef(v)
setOnValue(t, k, v) ==
    [warned |-> isUndef(t) \/ isPrimitive(t), thrown |-> TRUE, result |-> Undefined]

\* del(target, key) on a target that is no object: the same warning, then
\* `target.__ob__` throws a TypeError on undefined and null; on a number it
\* is undefined, as is target._isVue, hasOwn(target, key) is false and del
\* returns.
delOnValue(t, k) ==
    [warned |-> isUndef(t) \/ isPrimitive(t), thrown |-> isUndef(t)]

\* The calls on such a target; the log keeps the target value in op.w.
SetOnValueCall(t, k, v) ==
    /\ Idle
    /\ LET r == setOnValue(t, k, v)
       IN /\ log' = [NewLog(OpRec("set", 0, k, v, t)) EXCEPT !.result = r.result, !.warned = r.warned]
          /\ exc' = r.thrown
    /\ UNCHANGED <<heapVars, shouldObserve, subs, watchers, vmWatchers, depTarget, targetStack, schedVars, async, stack, ret>>

DelOnValueCall(t, k) ==
    /\ Idle
    /\ LET r == delOnValue(t, k)
       IN /\ log' = [NewLog(OpRec("del", 0, k, Undefined, t)) EXCEPT !.warned = r.warned]
          /\ exc' = r.thrown
    /\ UNCHANGED <<heapVars, shouldObserve, subs, watchers, vmWatchers, depTarget, targetStack, schedVars, async, stack, ret>>

SetCall(o, k, i, v) ==
    /\ Idle
    /\ IsArray(o) => i < MaxArrLen
    /\ LET r == set(Ctl, Heap, o, k, i, v, shouldObserve)
       IN /\ r.h.depUid <= MaxDeps
          /\ SetHeap(r.h)
          /\ SetCtl(r.c)
          /\ log' = [NewLog(OpRec("set", o, IF IsArray(o) THEN "" ELSE k, v, IF IsArray(o) THEN i ELSE 0)) EXCEPT !.result = r.result, !.notified = r.notified, !.warned = r.warned]
    /\ UNCHANGED <<shouldObserve, subs, watchers, vmWatchers, schedVars, async, ret, exc>>

DelCall(o, k, i) ==
    /\ Idle
    /\ LET r == del(Ctl, Heap, o, k, i, shouldObserve)
       IN /\ SetHeap(r.h)
          /\ SetCtl(r.c)
          /\ log' = [NewLog(OpRec("del", o, IF IsArray(o) THEN "" ELSE k, Undefined, IF IsArray(o) THEN i ELSE 0)) EXCEPT !.notified = r.notified, !.warned = r.warned]
    /\ UNCHANGED <<shouldObserve, subs, watchers, vmWatchers, schedVars, async, ret, exc>>

MutatorCall(method, v) ==
    /\ Idle
    /\ method \in {"push", "unshift"} => Len(elems[ArrObj]) < MaxArrLen
    /\ LET r == Mutate(Ctl, Heap, ArrObj, method, 0, v, shouldObserve)
       IN /\ r.h.depUid <= MaxDeps
          /\ SetHeap(r.h)
          /\ SetCtl(r.c)
          /\ log' = [NewLog(OpRec(method, ArrObj, "", v, 0)) EXCEPT !.result = r.result, !.notified = r.notified]
    /\ UNCHANGED <<shouldObserve, subs, watchers, vmWatchers, schedVars, async, ret, exc>>

\* observe(value, asRootData) called by the state owner
ObserveCall(v, asRootData) ==
    /\ Idle
    /\ (asRootData /\ isObject(v) /\ ob[Deref(v)] # 0) => observers[ob[Deref(v)]].vmCount < MaxRoots
    /\ LET h == observe(Heap, v, asRootData, shouldObserve)
       IN /\ h.depUid <= MaxDeps
          /\ SetHeap(h)
          /\ log' = [NewLog(OpRec("observe", IF isObject(v) THEN Deref(v) ELSE 0, "", v, 0)) EXCEPT !.result = ObOfValue(h, v)]
    /\ UNCHANGED <<shouldObserve, subs, watchers, vmWatchers, depTarget, targetStack, schedVars, async, stack, ret, exc>>

\* config.async = value
ConfigAsync(b) ==
    /\ Idle
    /\ async # b
    /\ async' = b
    /\ UNCHANGED <<heapVars, shouldObserve, subs, watchers, vmWatchers, depTarget, targetStack, schedVars, stack, ret, exc, log>>

\* toggleObserving(value)
ToggleObserving(b) ==
    /\ Idle
    /\ shouldObserve # b
    /\ shouldObserve' = b
    /\ UNCHANGED <<heapVars, subs, watchers, vmWatchers, depTarget, targetStack, schedVars, async, stack, ret, exc, log>>

\* ------------------------------------------------ calls from the top level
Teardown(w) ==
    /\ Idle
    /\ w \in 1..Len(watchers)
    /\ SetWorld(teardown(World, w))
    /\ log' = NewLog(OpRec("teardown", 0, "", Undefined, w))
    /\ UNCHANGED <<heapVars, shouldObserve, depTarget, targetStack, schedVars, async, stack, ret, exc>>

Evaluate(w) ==
    /\ Idle
    /\ w \in 1..Len(watchers)
    /\ watchers[w].lazy
    /\ SetCtl(EnterGet([Ctl EXCEPT !.stack = <<Fr("evaluate", w, "afterGet")>>], w))
    /\ log' = NewLog(OpRec("evaluate", 0, "", Undefined, w))
    /\ UNCHANGED <<heapVars, shouldObserve, subs, watchers, vmWatchers, schedVars, async, ret, exc>>

CallRun(w) ==
    /\ Idle
    /\ w \in 1..Len(watchers)
    /\ ~watchers[w].lazy
    /\ SetCtl(EnterRun(Ctl, w))
    /\ log' = NewLog(OpRec("run", 0, "", Undefined, w))
    /\ UNCHANGED <<heapVars, shouldObserve, subs, watchers, vmWatchers, schedVars, async, ret, exc>>

CallUpdate(w) ==
    /\ Idle
    /\ w \in 1..Len(watchers)
    /\ LET u == update(Ctl, World, Sched, w)
       IN /\ SetCtl(u.c)
          /\ SetWorld(u.rw)
          /\ SetSched(u.q)
    /\ log' = [NewLog(OpRec("update", 0, "", Undefined, w)) EXCEPT !.updated = <<w>>]
    /\ UNCHANGED <<heapVars, shouldObserve, async, ret, exc>>

\* ------------------------------------------------------------------- flush
\* The flush runs in a later tick than the write that scheduled it.
FlushStart ==
    /\ Idle
    /\ waiting
    /\ ~flushing
    /\ flushing' = TRUE
    /\ queue' = SortById(queue)
    /\ index' = 0
    /\ stack' = <<Fr("flush", 0, "loop")>>
    /\ log' = NewLog(OpRec("flush", 0, "", Undefined, 0))
    /\ UNCHANGED <<heapVars, shouldObserve, subs, watchers, vmWatchers, depTarget, targetStack, has, waiting, circular, async, ret, exc>>

NoCircular == [w \in 1..(IF MaxWatchers > MaxOrderWatchers THEN MaxWatchers ELSE MaxOrderWatchers) |-> 0]

FlushStep ==
    /\ Running("flush", "loop")
    /\ ~exc
    /\ IF index >= Len(queue)
       THEN /\ queue' = <<>>
            /\ has' = {}
            /\ circular' = [w \in DOMAIN circular |-> 0]
            /\ waiting' = FALSE
            /\ flushing' = FALSE
            /\ index' = 0
            /\ stack' = Below
            /\ UNCHANGED <<targetStack, depTarget, log>>
       ELSE LET w == queue[index + 1]
            IN /\ has' = has \ {IdOf(w)}
               /\ SetCtl(EnterRun([Ctl EXCEPT !.stack = SetTop([Top EXCEPT !.pc = "afterRun", !.w = w])], w))
               /\ UNCHANGED <<queue, circular, waiting, flushing, index>>
               /\ log' = [log EXCEPT !.runs = Append(@, w)]
    /\ UNCHANGED <<heapVars, shouldObserve, subs, watchers, vmWatchers, async, ret, exc>>

FlushAfterRun ==
    /\ Running("flush", "afterRun")
    /\ ~exc
    /\ index' = index + 1
    /\ stack' = SetTop([Top EXCEPT !.pc = "loop", !.w = 0])
    /\ UNCHANGED <<heapVars, shouldObserve, subs, watchers, vmWatchers, depTarget, targetStack, queue, has, waiting, flushing, circular, async, ret, exc, log>>

\* The top-level operation has returned to its caller: the next one starts
\* with a fresh history.
Return ==
    /\ Completed
    /\ log' = NewLog(NoOp)
    /\ ret' = Undefined
    /\ exc' = FALSE
    /\ UNCHANGED <<heapVars, shouldObserve, subs, watchers, vmWatchers, depTarget, targetStack, schedVars, async, stack>>

\* ------------------------------------------------------------ the machine
RootFields == [k \in Keys |-> IF k = "flag" THEN 1 ELSE IF k \in {"x", "y"} THEN 0 ELSE Undefined]
RawHeap ==
    [own |-> [o \in ObjIds |-> IF o = RootObj THEN <<"flag", "x", "y">> ELSE IF o = ChildObj THEN <<"x">> ELSE <<>>],
     val |-> [o \in ObjIds |-> IF o = RootObj THEN RootFields ELSE [k \in Keys |-> IF o = ChildObj /\ k = "x" THEN 0 ELSE Undefined]],
     elems |-> [o \in ObjIds |-> <<>>],
     ob |-> [o \in ObjIds |-> 0],
     observers |-> <<>>,
     accessor |-> [o \in ObjIds |-> [k \in Keys |-> NoAccessor]],
     depUid |-> 0]

InitRest ==
    /\ shouldObserve = TRUE
    /\ subs = [d \in DepIds |-> <<>>]
    /\ watchers = <<>>
    /\ vmWatchers = <<>>
    /\ depTarget = 0
    /\ targetStack = <<>>
    /\ queue = <<>>
    /\ has = {}
    /\ waiting = FALSE
    /\ flushing = FALSE
    /\ index = 0
    /\ circular = NoCircular
    /\ async = TRUE
    /\ stack = <<>>
    /\ ret = Undefined
    /\ exc = FALSE
    /\ log = NewLog(NoOp)

\* The state root o = {flag: 1, x: 0, y: 0} has been observed as root data.
Init ==
    /\ LET h == observe(RawHeap, Ref(RootObj), TRUE, TRUE)
       IN /\ own = h.own
          /\ val = h.val
          /\ elems = h.elems
          /\ ob = h.ob
          /\ observers = h.observers
          /\ accessor = h.accessor
          /\ depUid = h.depUid
    /\ InitRest

StepsCall ==
    \/ CtorAfterGet
    \/ GetBody
    \/ GetFinally
    \/ GetExit
    \/ RunAfterGet
    \/ CbBody
    \/ RunAfterCb
    \/ NotifyStep

StepsCore ==
    \/ StepsCall
    \/ FlushStep
    \/ FlushAfterRun

Steps ==
    \/ StepsCore
    \/ EvaluateAfterGet

Next ==
    \/ \E p \in Profiles : Construct(p, MaxWatchers)
    \/ \E k \in {"flag", "x", "y"}, v \in {0, 1} : Write(RootObj, k, v)
    \/ \E w \in 1..MaxWatchers : Teardown(w)
    \/ \E w \in 1..MaxWatchers : Evaluate(w)
    \/ \E w \in 1..MaxWatchers : CallRun(w)
    \/ FlushStart
    \/ Steps
    \/ Return

Spec == Init /\ [][Next]_vars

\* ------------------------------------------------ computed-style watchers
\* Lazy watchers, one of them with a getter that throws while root.flag is
\* truthy, and a non-lazy reader of the first watcher.
LazyProfiles ==
    { Profile("sum", "noop", FALSE, FALSE, TRUE, FALSE),
      Profile("throwing", "noop", FALSE, FALSE, TRUE, FALSE),
      Profile("computed", "noop", FALSE, FALSE, FALSE, FALSE),
      Profile("nested", "noop", FALSE, FALSE, FALSE, FALSE) }

NextLazy ==
    \/ \E p \in LazyProfiles : Construct(p, MaxWatchers)
    \/ \E k \in {"flag", "x", "y"}, v \in {0, 1} : Write(RootObj, k, v)
    \/ \E w \in 1..MaxWatchers : Evaluate(w)
    \/ FlushStart
    \/ StepsCore
    \/ EvaluateAfterGet
    \/ Unwind
    \/ Return

SpecLazy == Init /\ [][NextLazy]_vars

\* ------------------------------------------------------- the flush's order
\* Three queued watchers, invalidated by writes or by update() in any order.
OrderProfiles ==
    { Profile("field", "noop", FALSE, TRUE, FALSE, FALSE),
      Profile("cond", "noop", FALSE, FALSE, FALSE, FALSE) }

NextOrder ==
    \/ \E p \in OrderProfiles : Construct(p, MaxOrderWatchers)
    \/ \E k \in {"flag", "x", "y"}, v \in {0, 1} : Write(RootObj, k, v)
    \/ \E w \in 1..MaxOrderWatchers : CallUpdate(w)
    \/ FlushStart
    \/ StepsCore
    \/ Return

SpecOrder == Init /\ [][NextOrder]_vars

\* ------------------------------------------------- the heap specification
\* The state owner's operations on a small object graph, nothing observed
\* yet: root = {x: 0}, child = {x: 0}, arr = [].  root.x may come to hold
\* child or arr, arr may hold child.
HeapRaw ==
    [RawHeap EXCEPT !.own = [o \in ObjIds |-> IF IsArray(o) THEN <<>> ELSE <<"x">>],
                    !.val = [o \in ObjIds |-> [k \in Keys |-> IF k = "x" /\ ~IsArray(o) THEN 0 ELSE Undefined]]]

InitHeap ==
    /\ own = HeapRaw.own
    /\ val = HeapRaw.val
    /\ elems = HeapRaw.elems
    /\ ob = HeapRaw.ob
    /\ observers = HeapRaw.observers
    /\ accessor = HeapRaw.accessor
    /\ depUid = HeapRaw.depUid
    /\ InitRest

NextHeap ==
    \/ \E v \in {0, Ref(RootObj), Ref(ChildObj), Ref(ArrObj)} : ObserveCall(v, v = Ref(RootObj))
    \/ \E v \in {0, Ref(ChildObj), Ref(ArrObj)} : Write(RootObj, "x", v)
    \/ \E o \in {RootObj, ChildObj}, v \in {0, 1} : SetCall(o, "k", 0, v)
    \/ \E i \in 0..(MaxArrLen - 1), v \in {0, Ref(ChildObj)} : SetCall(ArrObj, "", i, v)
    \/ \E o \in {RootObj, ChildObj} : DelCall(o, "k", 0)
    \/ \E i \in 0..(MaxArrLen - 1) : DelCall(ArrObj, "", i)
    \/ \E m \in {"push", "unshift"}, v \in {0, Ref(ChildObj)} : MutatorCall(m, v)
    \/ \E m \in {"pop", "shift", "reverse", "sort"} : MutatorCall(m, Undefined)
    \/ NotifyStep
    \/ Return

SpecHeap == InitHeap /\ [][NextHeap]_vars

\* -------------------------------------------------- set() under watchers
\* root = {flag: 1, x: child, y: 0}, child = {x: 0}, observed as root data at
\* some point: from then on a watcher that reads root.x also subscribes to
\* child's container Dep.
SetRaw == [RawHeap EXCEPT !.val[RootObj]["x"] = Ref(ChildObj)]

InitSet ==
    /\ own = SetRaw.own
    /\ val = SetRaw.val
    /\ elems = SetRaw.elems
    /\ ob = SetRaw.ob
    /\ observers = SetRaw.observers
    /\ accessor = SetRaw.accessor
    /\ depUid = SetRaw.depUid
    /\ InitRest

SetProfiles ==
    { Profile("field", "noop", FALSE, TRUE, FALSE, FALSE),
      Profile("cond", "unwatchOther", FALSE, TRUE, FALSE, TRUE) }

NextSet ==
    \/ \E p \in SetProfiles : Construct(p, MaxWatchers)
    \/ ObserveCall(Ref(RootObj), TRUE)
    \/ \E v \in {0, Ref(ChildObj)} : Write(RootObj, "x", v)
    \/ \E v \in {0, 1} : Write(RootObj, "flag", v)
    \/ \E o \in {RootObj, ChildObj}, v \in {0, 1} : SetCall(o, "k", 0, v)
    \/ \E o \in {RootObj, ChildObj} : DelCall(o, "k", 0)
    \/ FlushStart
    \/ StepsCore
    \/ Return

SpecSet == InitSet /\ [][NextSet]_vars

\* ---------------------------------------------------- throwing watchers
\* Getters that throw while root.flag is truthy and callbacks that throw, on
\* user and on non-user watchers, evaluated by their constructor and by
\* run() called directly.
ThrowProfiles ==
    { Profile("throwing", "noop", FALSE, TRUE, FALSE, FALSE),
      Profile("throwing", "noop", FALSE, FALSE, FALSE, FALSE),
      Profile("throwing", "noop", TRUE, TRUE, FALSE, FALSE),
      Profile("field", "throws", FALSE, TRUE, FALSE, FALSE),
      Profile("field", "throws", FALSE, FALSE, FALSE, FALSE) }

NextThrow ==
    \/ \E p \in ThrowProfiles : Construct(p, MaxWatchers)
    \/ \E k \in {"flag", "x"}, v \in {0, 1} : Write(RootObj, k, v)
    \/ \E w \in 1..MaxWatchers : CallRun(w)
    \/ StepsCall
    \/ Unwind
    \/ Return

SpecThrow == Init /\ [][NextThrow]_vars

\* ------------------------------------------------------- render watchers
\* A render watcher (non-user, queued) over flag ? x : y next to a sync user
\* watcher whose callback tears the other watcher down.  Every scheduled
\* flush eventually starts, and a call in progress runs to its end.
RenderProfiles ==
    { Profile("cond", "noop", FALSE, FALSE, FALSE, FALSE),
      Profile("cond", "unwatchOther", FALSE, TRUE, FALSE, TRUE) }

NextRender ==
    \/ \E p \in RenderProfiles : Construct(p, MaxWatchers)
    \/ \E k \in {"flag", "x", "y"}, v \in {0, 1} : Write(RootObj, k, v)
    \/ FlushStart
    \/ StepsCore
    \/ Return

SpecRender ==
    /\ Init
    /\ [][NextRender]_vars
    /\ SF_vars(FlushStart)
    /\ WF_vars(StepsCore)
    /\ WF_vars(Return)

\* ------------------------------------------------- arrays under watchers
\* root = {flag: 1, x: arr, y: 0} observed as root data, arr = [], and a child
\* object no one has observed yet; observation can be switched off and on.
ArrRaw == [RawHeap EXCEPT !.val[RootObj]["x"] = Ref(ArrObj)]

InitArr ==
    /\ LET h == observe(ArrRaw, Ref(RootObj), TRUE, TRUE)
       IN /\ own = h.own
          /\ val = h.val
          /\ elems = h.elems
          /\ ob = h.ob
          /\ observers = h.observers
          /\ accessor = h.accessor
          /\ depUid = h.depUid
    /\ InitRest

NextArr ==
    \/ \E p \in SetProfiles : Construct(p, MaxWatchers)
    \/ \E m \in {"push", "unshift"}, v \in {0, Ref(ChildObj)} : MutatorCall(m, v)
    \/ \E m \in {"pop", "reverse"} : MutatorCall(m, Undefined)
    \/ \E v \in {0, Ref(ArrObj)} : Write(RootObj, "x", v)
    \/ \E b \in BOOLEAN : ToggleObserving(b)
    \/ \E w \in 1..MaxWatchers : Teardown(w)
    \/ FlushStart
    \/ StepsCore
    \/ Return

SpecArr == InitArr /\ [][NextArr]_vars

\* ------------------------------------------------------------------ claims
SubscribedTo(w) == {d \in DepIds : Contains(subs[d], w)}
GetReturning == stack # <<>> /\ Top.f = "get" /\ Top.pc = "exit"

\* C1 (as stated): when any get() of any watcher W returns, W's dep set is
\* exactly the set of Deps whose depend() ran while W was the active
\* collector during that call, and W is in D.subs exactly for those Deps.
C1_AsStated ==
    GetReturning =>
        /\ watchers[Top.w].depIds = Top.touched
        /\ SeqToSet(watchers[Top.w].deps) = Top.touched
        /\ SubscribedTo(Top.w) = Top.touched

\* C1 (amended): the same, for a watcher that is still active when its get()
\* returns; a watcher torn down before or during the call keeps the Deps it
\* read in deps/depIds without being subscribed to all of them.
C1_GetReconcilesActive ==
    (GetReturning /\ watchers[Top.w].active) =>
        /\ watchers[Top.w].depIds = Top.touched
        /\ SeqToSet(watchers[Top.w].deps) = Top.touched
        /\ SubscribedTo(Top.w) = Top.touched

\* C1 witness: a nested evaluation returns (a lazy watcher evaluated inside
\* another watcher's getter) having read Deps, the watcher still active.
C1_Witness ==
    /\ GetReturning
    /\ watchers[Top.w].active
    /\ Top.touched # {}
    /\ \E i \in 1..(Len(stack) - 1) : stack[i].f = "get" /\ stack[i].w # Top.w

\* C3 (as stated): a watcher whose teardown() has returned (active is false
\* from then on) is in no Dep's subscriber list, in every later state.
C3_AsStated ==
    \A w \in 1..Len(watchers) : ~watchers[w].active => SubscribedTo(w) = {}

\* C4 (as stated): the callback of a watcher is never invoked once its
\* teardown() has returned: every callback invocation of the current
\* operation found its watcher active.
C4_AsStated ==
    \A i \in 1..Len(log.cbs) : log.cbs[i].active

\* ---------------------------------------------------------------------- C2
CallbacksOf(w) == SelectSeq(log.cbs, LAMBDA e : e.w = w)
WroteRoot(k) == Completed /\ log.op.name = "write" /\ log.op.o = RootObj /\ log.op.k = k /\ log.notified # <<>>
\* an active, non-lazy watcher over flag ? x : y whose last evaluation took branch b
CondOn(w, b) ==
    /\ w \in 1..Len(log.ws)
    /\ log.ws[w].getter = "cond"
    /\ ~log.ws[w].lazy
    /\ log.ws[w].active
    /\ log.ws[w].branch = b

\* C2: a watcher over `flag ? x : y` whose last evaluation saw flag truthy is
\* not invalidated by a write to y but is by a write to x or to flag; one
\* whose last evaluation saw flag falsy is not invalidated by a write to x but
\* is by a write to y or to flag.
C2_UntakenBranchIgnored ==
    \A w \in 1..MaxWatchers :
        /\ (WroteRoot("y") /\ CondOn(w, "x")) => ~Contains(log.updated, w)
        /\ (WroteRoot("x") /\ CondOn(w, "y")) => ~Contains(log.updated, w)
        /\ (WroteRoot("x") /\ CondOn(w, "x")) => Contains(log.updated, w)
        /\ (WroteRoot("y") /\ CondOn(w, "y")) => Contains(log.updated, w)
        /\ (WroteRoot("flag") /\ (CondOn(w, "x") \/ CondOn(w, "y"))) => Contains(log.updated, w)

\* A write to y has notified while one watcher sat on the x branch and the
\* other on the y branch.
C2_Witness ==
    /\ WroteRoot("y")
    /\ \E w1, w2 \in 1..MaxWatchers :
         /\ CondOn(w1, "x") /\ ~Contains(log.updated, w1)
         /\ CondOn(w2, "y") /\ Contains(log.updated, w2)

\* ---------------------------------------------------------------------- C5
\* an active, non-lazy, non-sync watcher over the reactive field root.x
FieldAsync(w) ==
    /\ w \in 1..Len(log.ws)
    /\ log.ws[w].getter = "field"
    /\ ~log.ws[w].lazy
    /\ ~log.ws[w].sync
    /\ log.ws[w].active
FlushDone == Completed /\ log.op.name = "flush" /\ ~exc

\* C5: for an active, non-lazy, non-sync watcher over root.x with cached value
\* v1, a write root.x = v2 # v1 invokes no callback of it and leaves it
\* queued; the next flush invokes its callback exactly once, with (v2, v1),
\* and leaves its cached value v2.
C5_WriteThenFlush ==
    \A w \in 1..MaxWatchers :
        /\ (WroteRoot("x") /\ FieldAsync(w) /\ log.ws[w].value # log.op.v)
              => /\ CallbacksOf(w) = <<>>
                 /\ Contains(queue, w)
                 /\ watchers[w].value = log.ws[w].value
        /\ (FlushDone /\ FieldAsync(w) /\ watchers[w].active /\ Contains(log.q0, w) /\ log.ws[w].value # val[RootObj]["x"])
              => /\ CallbacksOf(w) = <<[w |-> w, new |-> val[RootObj]["x"], old |-> log.ws[w].value, active |-> TRUE]>>
                 /\ watchers[w].value = val[RootObj]["x"]

\* A flush has called the callback of a watcher over root.x.
C5_Witness ==
    /\ FlushDone
    /\ \E w \in 1..MaxWatchers :
         /\ FieldAsync(w) /\ Contains(log.q0, w)
         /\ log.ws[w].value = 0
         /\ val[RootObj]["x"] = 1
         /\ Len(CallbacksOf(w)) = 1

\* ---------------------------------------------------------------------- C7
Built(w) == Completed /\ log.op.name = "new" /\ log.op.w = w /\ w \in 1..Len(watchers) /\ watchers[w].lazy
Evaluated(w) == Completed /\ log.op.name = "evaluate" /\ log.op.w = w
\* a lazy watcher subscribed to the Dep the write notified
LazyReaderOfWritten(w) ==
    /\ Completed /\ log.op.name = "write" /\ log.notified # <<>>
    /\ w \in 1..Len(log.ws)
    /\ log.ws[w].lazy
    /\ Contains(log.s0[log.notified[1]], w)

LazyBuiltIdle(w) ==
    Built(w) => /\ watchers[w].value = Undefined
                /\ watchers[w].dirty
                /\ watchers[w].deps = <<>> /\ watchers[w].depIds = {}
                /\ SubscribedTo(w) = {}
                /\ log.gets = <<>>
LazyOnlyDirtied(w) ==
    LazyReaderOfWritten(w) => /\ Contains(log.updated, w)
                              /\ watchers[w].dirty
                              /\ ~Contains(log.gets, w)
                              /\ CallbacksOf(w) = <<>>
                              /\ ~Contains(queue, w) /\ watchers[w].id \notin has
                              /\ watchers[w].value = log.ws[w].value
EvaluateCaches(w) ==
    /\ Count(log.gets, w) = 1
    /\ ~watchers[w].dirty
    /\ watchers[w].value = log.result
    /\ watchers[w].getter = "sum" => log.result = JsAdd(val[RootObj]["x"], val[RootObj]["y"])

\* C7 as stated: a lazy watcher does not run its getter at construction
\* (value undefined, dirty, no subscription); a change to a Dep it read sets
\* dirty without running its getter or callback and without queueing it; each
\* evaluate() runs the getter exactly once, caches the result and leaves
\* dirty false.
C7_AsStated ==
    \A w \in 1..MaxWatchers :
        /\ LazyBuiltIdle(w)
        /\ LazyOnlyDirtied(w)
        /\ Evaluated(w) => EvaluateCaches(w)

\* C7: as stated, but for the evaluate() calls whose getter returns: when the
\* getter of a non-user lazy watcher throws, evaluate() has run it once, lets
\* the exception through and leaves the cached value and dirty as they were.
C7_Lazy ==
    \A w \in 1..MaxWatchers :
        /\ LazyBuiltIdle(w)
        /\ LazyOnlyDirtied(w)
        /\ (Evaluated(w) /\ ~exc) => EvaluateCaches(w)
        /\ (Evaluated(w) /\ exc) => /\ Count(log.gets, w) = 1
                                     /\ ~watchers[w].user
                                     /\ watchers[w].dirty = log.ws[w].dirty
                                     /\ watchers[w].value = log.ws[w].value

\* A write has dirtied a lazy watcher that had been evaluated and was clean.
C7_Witness ==
    \E w \in 1..MaxWatchers :
        /\ LazyReaderOfWritten(w)
        /\ ~log.ws[w].dirty
        /\ watchers[w].dirty

\* ---------------------------------------------------------------------- C6
Ascending(s) == \A i, j \in 1..Len(s) : i < j => (s[i] < s[j] /\ watchers[s[i]].id < watchers[s[j]].id)
Queued(w) == ~watchers[w].lazy /\ ~watchers[w].sync

\* C6: every non-lazy, non-sync watcher update() is called on before a flush
\* is in the queue once, in the order of the calls; the flush calls run() on
\* exactly the queued watchers, once each, in strictly ascending id order,
\* which is their creation order.
C6_FlushAscending ==
    /\ (Completed /\ log.op.name \in {"write", "update"})
          => \A i \in 1..Len(log.updated) :
                Queued(log.updated[i]) => Count(queue, log.updated[i]) = 1
    /\ (Completed /\ log.op.name = "update" /\ Queued(log.op.w) /\ ~Contains(log.q0, log.op.w))
          => queue = Append(log.q0, log.op.w)
    /\ FlushDone => /\ Ascending(log.runs)
                    /\ SeqToSet(log.runs) = SeqToSet(log.q0)
                    /\ Len(log.runs) = Len(log.q0)

\* Watchers 3, 1, 2 were invalidated in that order and the flush has run
\* 1, 2, 3.
C6_Witness ==
    /\ FlushDone
    /\ log.q0 = <<3, 1, 2>>
    /\ log.runs = <<1, 2, 3>>

\* ---------------------------------------------------------------------- C8
ObserversOf(o) == {i \in 1..Len(observers) : observers[i].value = o}
Observed(v) == Completed /\ log.op.name = "observe" /\ log.op.v = v

\* C8: every object or array has at most one Observer over its lifetime, the
\* one its __ob__ names; observe(v) on an already observed v returns that
\* Observer and creates no Observer, no Dep and no accessor; observe() of a
\* primitive returns nothing and creates nothing.
C8_ObserveIdempotent ==
    /\ \A o \in ObjIds : /\ Cardinality(ObserversOf(o)) <= 1
                         /\ ob[o] # 0 => ObserversOf(o) = {ob[o]}
                         /\ ob[o] = 0 => ObserversOf(o) = {}
    /\ \A v \in Refs : (Observed(v) /\ log.pre.ob # 0)
                          => /\ log.result = log.pre.ob
                             /\ ob[Deref(v)] = log.pre.ob
                             /\ Len(observers) = log.pre.nobs
                             /\ depUid = log.pre.uid
                             /\ accessor[Deref(v)] = log.pre.acc
    /\ \A v \in {0, 1, Undefined, NaN} : Observed(v)
                          => /\ log.result = 0
                             /\ Len(observers) = log.pre.nobs
                             /\ depUid = log.pre.uid

\* observe(child) was called on a child already observed as the value of
\* root.x, with a converted field of its own.
C8_Witness ==
    /\ Observed(Ref(ChildObj))
    /\ log.pre.ob # 0
    /\ log.result = log.pre.ob
    /\ IsReactive(Heap, ChildObj, "x")
    /\ ob[RootObj] # 0

\* ---------------------------------------------------------------------- C9
SetNewKey(o) == Completed /\ log.op.name = "set" /\ log.op.o = o /\ ~IsArray(o) /\ ~log.pre.had
ContainerSubsUpdated == \A i \in 1..Len(log.pre.obSubs) : Contains(log.updated, log.pre.obSubs[i])

SetNewKeyOnRoot(o) == SetNewKey(o) /\ log.pre.vmCount > 0

Pushed == Completed /\ log.op.name = "push" /\ log.op.o = ArrObj /\ log.pre.ob # 0
\* an active watcher whose last evaluation read arr as the value of root.x
ReaderOfArr(w) ==
    /\ w \in 1..Len(log.ws)
    /\ log.ws[w].active
    /\ log.ws[w].getter = "field"
    /\ log.ws[w].value = Ref(ArrObj)
PushNotifies ==
    /\ \A w \in 1..MaxWatchers : ReaderOfArr(w) => Count(log.updated, w) = 1
    /\ log.notified = <<observers[ob[ArrObj]].dep>>
    /\ log.result = log.pre.len + 1
    /\ Len(elems[ArrObj]) = log.pre.len + 1
    /\ elems[ArrObj][log.pre.len + 1] = log.op.v

Render(ws, w) ==
    /\ w \in 1..Len(ws)
    /\ ws[w].active /\ ~ws[w].lazy /\ ~ws[w].user /\ ~ws[w].sync
\* the write has changed a value w read during its most recent evaluation
WroteDepOf(w) ==
    /\ Completed /\ log.op.name = "write" /\ log.notified # <<>>
    /\ Render(log.ws, w)
    /\ log.notified[1] \in log.ws[w].depIds
RanInFlush(w) == log.op.name = "flush" /\ Contains(log.gets, w)

\* C12: a write that changes a value an active render watcher W read during
\* its most recent evaluation calls W.update(), which queues W without running
\* its evaluation function inside the write; every queued W that stays active
\* has its evaluation function run by a later flush.
C12_RenderReruns ==
    /\ [](\A w \in 1..MaxWatchers :
            WroteDepOf(w) => /\ Contains(log.updated, w)
                             /\ ~Contains(log.gets, w)
                             /\ watchers[w].active => (Contains(queue, w) /\ waiting))
    /\ \A w \in 1..MaxWatchers :
            (WroteDepOf(w) /\ watchers[w].active) ~> (RanInFlush(w) \/ (w \in 1..Len(watchers) /\ ~watchers[w].active))

\* A flush has re-run a render watcher after a write to a field it had read.
C12_Witness ==
    /\ FlushDone
    /\ \E w \in 1..MaxWatchers :
         /\ Render(log.ws, w) /\ watchers[w].active
         /\ Contains(log.q0, w)
         /\ Contains(log.gets, w)
         /\ log.ws[w].branch = "x" /\ watchers[w].branch = "y"

\* ------------------------------------------ set() and del() on any target
InvalidTargets == {Undefined, Null, 0, 1}

NextTarget ==
    \/ ObserveCall(Ref(RootObj), FALSE)
    \/ \E o \in {RootObj, ChildObj}, v \in {0, 1} : SetCall(o, "k", 0, v)
    \/ \E o \in {RootObj, ChildObj} : DelCall(o, "k", 0)
    \/ \E t \in InvalidTargets, v \in {0, 1} : SetOnValueCall(t, "k", v)
    \/ \E t \in InvalidTargets : DelOnValueCall(t, "k")
    \/ NotifyStep
    \/ Return

SpecTarget == InitSet /\ [][NextTarget]_vars

\* --------------------------------------------------------------------- C14
OnInvalidTarget(name) == Completed /\ log.op.name = name /\ log.op.o = 0

\* C14: set() and del() on undefined, null or a primitive end in a warning
\* and not in an exception, and set() returns the value it was given.
C14_AsStated ==
    /\ OnInvalidTarget("del") => (log.warned /\ ~exc)
    /\ OnInvalidTarget("set") => (log.warned /\ ~exc /\ log.result = log.op.v)

\* ------------------------------------------------- one pass of Dep.notify
\* Watchers that run inside update(): synchronous ones whose callback tears
\* another watcher down or evaluates it, one whose getter throws to the
\* caller, and a lazy one; config.async is on or off.
NotifyProfiles ==
    { Profile("cond", "unwatchOther", FALSE, TRUE, FALSE, TRUE),
      Profile("field", "evalOther", FALSE, TRUE, FALSE, TRUE),
      Profile("throwing", "noop", FALSE, FALSE, FALSE, TRUE),
      Profile("cond", "noop", FALSE, FALSE, TRUE, FALSE) }

NextNotify ==
    \/ \E p \in NotifyProfiles : Construct(p, MaxWatchers)
    \/ \E k \in {"flag", "x", "y"}, v \in {0, 1} : Write(RootObj, k, v)
    \/ \E b \in BOOLEAN : ConfigAsync(b)
    \/ StepsCall
    \/ EvaluateAfterGet
    \/ Unwind
    \/ Return

SpecNotify == Init /\ [][NextNotify]_vars

\* --------------------------------------------------------------------- C16
\* a write has returned or thrown after exactly one notify() pass on Dep d
PassOn(d) == Completed /\ log.op.name = "write" /\ log.notified = <<d>>
\* the subscriber list of d when the pass started, in the order of the pass
Snapshot(d) == IF async THEN log.s0[d] ELSE SortById(log.s0[d])

NextWrite ==
    \/ \E p \in SetProfiles : Construct(p, MaxWatchers)
    \/ \E v \in {0, NaN, Ref(ChildObj)} : Write(RootObj, "x", v)
    \/ \E v \in {0, 1} : Write(RootObj, "flag", v)
    \/ \E b \in BOOLEAN : ToggleObserving(b)
    \/ FlushStart
    \/ StepsCore
    \/ Return

SpecWrite == Init /\ [][NextWrite]_vars

\* --------------------------------------------------------------------- C17
\* The step is a write to a reactive property of the value it holds: a
\* strictly equal one, or NaN over NaN.
SameValueWrite ==
    /\ Idle
    /\ log'.op.name = "write"
    /\ IsReactive(Heap, log'.op.o, log'.op.k)
    /\ \/ StrictEq(log'.op.v, val[log'.op.o][log'.op.k])
       \/ (log'.op.v = NaN /\ val[log'.op.o][log'.op.k] = NaN)

\* C17: such a write changes nothing: the stored values, the Observers and
\* the accessors' links to them, every subscriber list, every watcher and
\* the scheduler queue stay as they are, no Dep is notified, no update() is
\* called, and the write has returned.
C17_SameValueNoOp ==
    [][SameValueWrite
         => /\ UNCHANGED <<heapVars, subs, watchers, vmWatchers, depTarget, targetStack, schedVars>>
            /\ stack' = <<>>
            /\ log'.notified = <<>>
            /\ log'.updated = <<>>]_vars

\* NaN was written to root.x, which held NaN and which a watcher reads, and
\* no Dep was notified.
C17_Witness ==
    /\ Completed /\ log.op.name = "write" /\ log.op.k = "x" /\ log.op.v = NaN
    /\ IsReactive(Heap, RootObj, "x")
    /\ val[RootObj]["x"] = NaN
    /\ subs[accessor[RootObj]["x"].dep] # <<>>
    /\ log.notified = <<>> /\ log.updated = <<>> /\ queue = log.q0

\* --------------------------------------------------------------------- C18
\* a write or a direct update() call has returned
Invalidated == Completed /\ log.op.name \in {"write", "update"}

\* C18: a non-lazy, non-sync watcher is in the queue at most once however
\* often update() is called on it before the flush: a call on a watcher that
\* is pending leaves the queue as it was.  One flush is pending for a
\* non-empty queue; it calls run() once on each pending watcher and leaves
\* nothing pending and no flush scheduled.
C18_Coalesced ==
    /\ \A w \in 1..MaxOrderWatchers : Count(queue, w) <= 1
    /\ (queue # <<>> /\ ~flushing) => (waiting /\ has = {IdOf(queue[i]) : i \in 1..Len(queue)})
    /\ Invalidated
          => /\ \A i \in 1..Len(log.updated) : Queued(log.updated[i]) => Count(queue, log.updated[i]) = 1
             /\ Len(queue) >= Len(log.q0)
             /\ SubSeq(queue, 1, Len(log.q0)) = log.q0
             /\ (\A i \in 1..Len(log.updated) : Contains(log.q0, log.updated[i])) => queue = log.q0
    /\ FlushDone
          => /\ \A w \in 1..MaxOrderWatchers : Count(log.runs, w) = Count(log.q0, w)
             /\ \A w \in 1..MaxOrderWatchers : Contains(log.q0, w) => Count(log.gets, w) = 1
             /\ queue = <<>> /\ has = {} /\ ~waiting /\ ~flushing

\* A write has called update() on two watchers, one of them pending since an
\* earlier call: the queue holds it once, where it was.
C18_Witness ==
    /\ Invalidated /\ log.op.name = "write"
    /\ Len(log.updated) = 2
    /\ Len(log.q0) = 1
    /\ Contains(log.updated, log.q0[1])
    /\ Len(queue) = 2 /\ queue[1] = log.q0[1]
    /\ waiting

\* ------------------------------------------------------- runaway updates
\* A user watcher over root.x whose callback writes root.x, next to
\* watchers that only read.
RunawayProfiles ==
    { Profile("field", "toggle", FALSE, TRUE, FALSE, FALSE),
      Profile("field", "noop", FALSE, TRUE, FALSE, FALSE),
      Profile("cond", "noop", FALSE, FALSE, FALSE, FALSE) }

NextRunaway ==
    \/ \E p \in RunawayProfiles : Construct(p, MaxWatchers)
    \/ \E k \in {"flag", "x"}, v \in {0, 1} : Write(RootObj, k, v)
    \/ FlushStart
    \/ StepsCore
    \/ Return

SpecRunaway == Init /\ [][NextRunaway]_vars /\ WF_vars(StepsCore) /\ WF_vars(Return)

\* --------------------------------------------------------------------- C19
\* the watchers whose run() re-queues them: their callback writes root.x,
\* which they read
Runaway(w) == w \in 1..Len(watchers) /\ watchers[w].cb = "toggle"
\* what the getter of w returns in the current state
Current(w) ==
    IF watchers[w].getter = "field" \/ Truthy(val[RootObj]["flag"]) THEN val[RootObj]["x"] ELSE val[RootObj]["y"]

\* C19: every flush ends.  A watcher that each of its runs re-queues (its
\* callback ran each time) runs once
\* and then once per re-queue up to the threshold; the re-queue after that
\* drops it with a warning, and it is not run or queued again in this
\* flush, while every other watcher that was pending when the flush
\* started or was queued during it is run.
C19_RunawayContained ==
    /\ [](\A w \in 1..MaxWatchers :
            /\ Count(log.runs, w) <= MaxUpdateCount + 1
            /\ (flushing /\ circular[w] > MaxUpdateCount)
                  => /\ ~Contains(SubSeq(queue, index + 2, Len(queue)), w) /\ IdOf(w) \notin has
                     /\ Count(log.runs, w) = MaxUpdateCount + 1
                     /\ log.warned
            /\ (FlushDone /\ Runaway(w) /\ Contains(log.runs, w) /\ Len(CallbacksOf(w)) = Count(log.runs, w))
                  => (Count(log.runs, w) = MaxUpdateCount + 1 /\ log.warned)
            /\ (FlushDone /\ log.warned) => \E r \in 1..Len(watchers) : Runaway(r) /\ Count(log.runs, r) = MaxUpdateCount + 1
            /\ (FlushDone /\ ~Runaway(w) /\ Contains(log.q0, w)) => Count(log.runs, w) >= 1
            /\ (FlushDone /\ w \in 1..Len(watchers) /\ Contains(log.updated, w)) => Count(log.runs, w) >= 1
            /\ (FlushDone /\ ~log.warned /\ w \in 1..Len(watchers) /\ Contains(log.runs, w))
                  => watchers[w].value = Current(w)
            /\ FlushDone => (queue = <<>> /\ has = {} /\ ~waiting /\ circular[w] = 0))
    /\ (flushing ~> ~flushing)

\* A flush has dropped the watcher that re-queued itself and has then run
\* the watcher queued behind it.
C19_Witness ==
    /\ FlushDone /\ log.warned
    /\ Len(log.q0) = 2
    /\ Runaway(log.q0[1]) /\ ~Runaway(log.q0[2])
    /\ Count(log.runs, log.q0[1]) = MaxUpdateCount + 1
    /\ log.runs[Len(log.runs)] = log.q0[2]

\* ------------------------------------------------------------ run() alone
\* Watchers over root.x, plain and deep, with a callback that returns or
\* throws, and one whose getter throws; root.x takes a number, NaN or the
\* child object.  The watchers are queued by the writes and re-evaluated by
\* run(), called directly or by the flush.
RunProfiles ==
    { Profile("field", "noop", FALSE, TRUE, FALSE, FALSE),
      Profile("field", "throws", TRUE, TRUE, FALSE, FALSE),
      Profile("throwing", "noop", FALSE, TRUE, FALSE, FALSE),
      Profile("cond", "noop", FALSE, FALSE, FALSE, FALSE) }

NextRun ==
    \/ \E p \in RunProfiles : Construct(p, MaxWatchers)
    \/ \E v \in {0, NaN, Ref(ChildObj)} : Write(RootObj, "x", v)
    \/ \E v \in {0, 1} : Write(RootObj, "flag", v)
    \/ \E w \in 1..MaxWatchers : CallRun(w)
    \/ \E w \in 1..MaxWatchers : Teardown(w)
    \/ FlushStart
    \/ StepsCore
    \/ Unwind
    \/ Return

SpecRun == Init /\ [][NextRun]_vars

\* --------------------------------------------------------------------- C20
\* run() was called on watcher w, which was active, and has returned
RanActive(w) ==
    /\ Completed /\ log.op.name = "run" /\ log.op.w = w
    /\ w \in 1..Len(log.ws) /\ log.ws[w].active
\* what get() of w returned in the call: the getter's value, undefined when
\* the getter of a user watcher threw
GotValue(w) ==
    IF watchers[w].getter = "throwing"
    THEN (IF Truthy(val[RootObj]["flag"]) THEN Undefined ELSE val[RootObj]["x"])
    ELSE IF watchers[w].getter = "field" \/ Truthy(val[RootObj]["flag"]) THEN val[RootObj]["x"]
    ELSE val[RootObj]["y"]

\* C20: run() on an active watcher calls get() once; it calls the callback,
\* once and with (new value, previous cached value), exactly when the new
\* value is not strictly equal to the cached one (NaN never is), or is an
\* object or array, or the watcher is deep; the cached value is the new
\* value from before the callback starts, and is left alone when the
\* callback is not called.
C20_RunSemantics ==
    /\ \A w \in 1..MaxWatchers :
         RanActive(w)
           => LET new == GotValue(w)
                  old == log.ws[w].value
              IN /\ Count(log.gets, w) = 1
                 /\ IF new # old \/ new = NaN \/ new \in Refs \/ log.ws[w].deep
                    THEN /\ CallbacksOf(w) = <<[w |-> w, new |-> new, old |-> old, active |-> log.ws[w].active]>>
                         /\ watchers[w].value = new
                    ELSE /\ CallbacksOf(w) = <<>>
                         /\ watchers[w].value = old
    /\ Running("cb", "body") => (watchers[Top.w].value = Top.v /\ Top.old = log.ws[Top.w].value)

\* run() has called the callback of a watcher over root.x whose value is
\* the child object it had before.
C20_Witness ==
    \E w \in 1..MaxWatchers :
        /\ RanActive(w)
        /\ ~log.ws[w].deep
        /\ log.ws[w].value = Ref(ChildObj)
        /\ CallbacksOf(w) = <<[w |-> w, new |-> Ref(ChildObj), old |-> Ref(ChildObj), active |-> TRUE]>>

\* --------------------------------------------------------------------- C15
\* the watchers whose get() is running its getter, outermost first
Collecting ==
    LET fs == SelectSeq(stack, LAMBDA fr : fr.f = "get" /\ fr.pc = "body")
    IN [i \in 1..Len(fs) |-> fs[i].w]
DepOfRoot(k) == accessor[RootObj][k].dep
\* get() of w is about to exit and w's getter is of the given kind
Returning(kind) == GetReturning /\ watchers[Top.w].getter = kind

\* C15: Dep.target is the top of the target stack, or empty with it; the
\* target stack holds exactly the watchers whose get() has pushed and not
\* yet popped, also after a getter threw; and a nested get() collects the
\* reads made inside it for the inner watcher only while the outer watcher
\* collects the reads made after it.
C15_StackDiscipline ==
    /\ depTarget = (IF targetStack = <<>> THEN 0 ELSE targetStack[Len(targetStack)])
    /\ targetStack = Collecting
    /\ (Idle \/ Completed) => targetStack = <<>>
    /\ Returning("sum") => SubscribedTo(Top.w) = {DepOfRoot("x"), DepOfRoot("y")}
    /\ Returning("throwing")
          => SubscribedTo(Top.w) = (IF Top.thrown THEN {DepOfRoot("flag")} ELSE {DepOfRoot("flag"), DepOfRoot("x")})
    /\ Returning("nested")
          => SubscribedTo(Top.w) = (IF Top.thrown THEN {} ELSE {DepOfRoot("y")})

\* An outer get() is about to exit after a nested get() of the first
\* watcher ran inside it: each watcher holds its own reads only.
C15_Witness ==
    /\ Returning("nested") /\ ~Top.thrown
    /\ log.gets = <<1, Top.w>>
    /\ targetStack = <<>> /\ depTarget = 0
    /\ watchers[1].getter = "sum"
    /\ SubscribedTo(1) = {DepOfRoot("x"), DepOfRoot("y")}
    /\ SubscribedTo(Top.w) = {DepOfRoot("y")}

\* --------------------------------------------------------------------- C13
\* new Watcher or run() on watcher w has returned to its caller or thrown
Called(w) == Completed /\ log.op.name \in {"new", "run"} /\ log.op.w = w /\ w \in 1..Len(watchers)
\* the getter of w threw in the call: it read a truthy root.flag
GetterThrew(w) == watchers[w].getter = "throwing" /\ Contains(log.gets, w) /\ Truthy(val[RootObj]["flag"])
\* the callback of w threw in the call
CallbackThrew(w) == watchers[w].cb = "throws" /\ CallbacksOf(w) # <<>>
GetsInBody == {i \in 1..Len(stack) : stack[i].f = "get" /\ stack[i].pc = "body"}

\* C13: an exception of the getter or the callback of a user watcher goes to
\* the error handler and not to the caller of the constructor or run(), and
\* the watcher stays active and subscribed to what it read, so that a later
\* change of it calls update(); an exception of a non-user watcher reaches
\* the caller.  Either way get() has popped the target stack and reconciled
\* the dependency sets when it exits.
C13_ErrorsByKind ==
    /\ \A w \in 1..MaxWatchers :
         /\ (Called(w) /\ watchers[w].user /\ (GetterThrew(w) \/ CallbackThrew(w)))
               => /\ ~exc
                  /\ log.errors = 1
                  /\ watchers[w].active
                  /\ SubscribedTo(w) = watchers[w].depIds
                  /\ GetterThrew(w) => SubscribedTo(w) = {accessor[RootObj]["flag"].dep}
                  /\ CallbackThrew(w) => SubscribedTo(w) = {accessor[RootObj]["x"].dep}
         /\ (Called(w) /\ ~watchers[w].user /\ (GetterThrew(w) \/ CallbackThrew(w)))
               => /\ exc
                  /\ log.errors = 0
         /\ (Called(w) /\ ~GetterThrew(w) /\ ~CallbackThrew(w)) => (~exc /\ log.errors = 0)
         /\ (WroteRoot("flag") /\ w \in 1..Len(log.ws) /\ log.ws[w].getter = "throwing" /\ log.ws[w].active)
               => Contains(log.updated, w)
    /\ GetReturning
          => /\ Len(targetStack) = Cardinality(GetsInBody)
             /\ depTarget = (IF targetStack = <<>> THEN 0 ELSE targetStack[Len(targetStack)])
             /\ watchers[Top.w].newDeps = <<>> /\ watchers[Top.w].newDepIds = {}
             /\ watchers[Top.w].depIds = Top.touched
             /\ SeqToSet(watchers[Top.w].deps) = Top.touched
             /\ SubscribedTo(Top.w) = Top.touched
    /\ Completed => (targetStack = <<>> /\ depTarget = 0)

\* run() on a user watcher whose getter threw has returned normally, with the
\* error handed to the handler and the watcher subscribed to the flag it read.
C13_Witness ==
    \E w \in 1..MaxWatchers :
        /\ Called(w) /\ log.op.name = "run"
        /\ watchers[w].user /\ GetterThrew(w)
        /\ log.errors = 1 /\ ~exc
        /\ SubscribedTo(w) = {accessor[RootObj]["flag"].dep}
        /\ log.ws[w].depIds = {accessor[RootObj]["flag"].dep, accessor[RootObj]["x"].dep}

\* --------------------------------------------------------------------- C21
\* del(o, k) on a plain object o has returned
Deleted == Completed /\ log.op.name = "del" /\ log.op.o \in {RootObj, ChildObj}
KeyGone(o, k) == ~Contains(own[o], k) /\ val[o][k] = Undefined /\ accessor[o][k] = NoAccessor
\* what del must have notified: the container Dep of the target's Observer
ContainerDep == IF log.pre.ob = 0 THEN <<>> ELSE <<observers[log.pre.ob].dep>>
\* the step calls del(o, k) with k no own key of o
DelOfAbsentKey ==
    /\ Idle
    /\ log'.op.name = "del"
    /\ log'.op.o \in {RootObj, ChildObj}
    /\ ~Contains(own[log'.op.o], log'.op.k)

C22_SubscribedOnce ==
    \A w \in 1..Len(watchers) :
        /\ \A d \in DepIds : Count(subs[d], w) <= 1
        /\ SubscribedTo(w) \subseteq (watchers[w].depIds \cup watchers[w].newDepIds)
        /\ \A d \in DepIds : Count(watchers[w].newDeps, d) <= 1 /\ Count(watchers[w].deps, d) <= 1

\* A re-evaluation is about to exit whose getter read root.y twice, through
\* the computed watcher it depends on and directly, root.y being a Dep the
\* watcher was subscribed to from its previous cycle: it is in that Dep's
\* list once.
C22_Witness ==
    /\ GetReturning
    /\ watchers[Top.w].getter = "computed"
    /\ log.op.name # "new"
    /\ accessor[RootObj]["y"].dep \in log.ws[Top.w].depIds
    /\ Contains(watchers[1].deps, accessor[RootObj]["y"].dep)
    /\ Count(subs[accessor[RootObj]["y"].dep], Top.w) = 1
    /\ Count(watchers[Top.w].deps, accessor[RootObj]["y"].dep) = 1

\* --------------------------------------------------------------------- C23
\* run() on the active user watcher w has returned and its getter threw
RunThrew(w) ==
    /\ Called(w) /\ log.op.name = "run"
    /\ log.ws[w].active /\ log.ws[w].user
    /\ GetterThrew(w)

\* C23: when the getter of a user watcher throws during run(), the error
\* goes to the handler and run() takes undefined as the new value: with a
\* cached value other than undefined, or a deep watcher, the cached value
\* becomes undefined and the callback is called once with (undefined,
\* previous value); otherwise no callback is called.  The watcher is
\* subscribed to the Deps read before the exception and to no other.
C23_ThrowYieldsUndefined ==
    /\ \A w \in 1..MaxWatchers :
         RunThrew(w)
           => /\ ~exc /\ log.errors = 1
              /\ watchers[w].value = Undefined
              /\ IF log.ws[w].value # Undefined \/ log.ws[w].deep
                 THEN CallbacksOf(w) = <<[w |-> w, new |-> Undefined, old |-> log.ws[w].value, active |-> TRUE]>>
                 ELSE CallbacksOf(w) = <<>>
              /\ SubscribedTo(w) = {accessor[RootObj]["flag"].dep}
              /\ watchers[w].depIds = {accessor[RootObj]["flag"].dep}
    /\ (Running("cb", "body") /\ watchers[Top.w].getter = "throwing" /\ Truthy(val[RootObj]["flag"]))
          => (Top.v = Undefined /\ watchers[Top.w].value = Undefined)

\* run() on a user watcher that held 0 and was subscribed to root.flag and
\* root.x: its getter threw, the callback got (undefined, 0), and the
\* watcher is subscribed to root.flag alone.
C23_Witness ==
    \E w \in 1..MaxWatchers :
        /\ RunThrew(w)
        /\ ~log.ws[w].deep
        /\ log.ws[w].value = 0
        /\ log.ws[w].depIds = {accessor[RootObj]["flag"].dep, accessor[RootObj]["x"].dep}
        /\ CallbacksOf(w) = <<[w |-> w, new |-> Undefined, old |-> 0, active |-> TRUE]>>
        /\ watchers[w].value = Undefined
        /\ SubscribedTo(w) = {accessor[RootObj]["flag"].dep}

====
